---------------------------- MODULE Spec2Model ----------------------------
(***************************************************************************)
(* A model of small-redis: the MemTable, the SSTable writer and reader,    *)
(* the compactor, the LSM store with its background flusher, and the       *)
(* command handler with its write-ahead log.                               *)
(*                                                                         *)
(* Byte strings (Go string, []byte) are sequences of 0..255.  Go's nil     *)
(* pointer is the empty sequence and a non-nil pointer a sequence of one   *)
(* element.  Indices are 0-based where the source's are: entries[i] of the *)
(* source is entries[i + 1] here.                                          *)
(***************************************************************************)
EXTENDS Integers, Sequences, FiniteSets, TLC

(***************************************************************************)
(* Bounds of the model.                                                    *)
(***************************************************************************)
\* time.Now() is read at most this many times in a behaviour.
MaxTime == 4
\* The byte budget NewMemTable / NewLSMStore is given (memtableSize).
MemTableSize == 52

(***************************************************************************)
(* The keys and values the operations are called with.                     *)
(***************************************************************************)
\* "a", "ab", "b": two lengths, and an order that is not the order by length.
Keys == {<<97>>, <<97, 98>>, <<98>>}
\* "1", "22"
Values == {<<49>>, <<50, 50>>}

Min(a, b) == IF a < b THEN a ELSE b

\* Go's s < t on strings: bytewise lexicographic order.
StrLess(s, t) ==
    \/ Len(s) < Len(t) /\ \A j \in 1..Len(s) : s[j] = t[j]
    \/ \E i \in 1..Min(Len(s), Len(t)) :
          s[i] < t[i] /\ \A j \in 1..(i - 1) : s[j] = t[j]

\* Go's s >= t on strings.
StrGeq(s, t) == ~StrLess(s, t)

(***************************************************************************)
(* MemTable                                                                *)
(***************************************************************************)
VARIABLES
    now,        \* the clock time.Now() reads
    mt          \* a MemTable on its own

\* time.Now().UnixNano(): the clock has advanced since the previous read.
Tick(t) == t + 1

\* Entry{Key, Value, Timestamp, Deleted}; Value nil is the empty byte string.
Entry(k, v, ts, del) == [Key |-> k, Value |-> v, Timestamp |-> ts, Deleted |-> del]

\* NewMemTable(maxSize)
NewMemTable(maxSize) ==
    [entries |-> <<>>, sizeBytes |-> 0, maxSize |-> maxSize, immutable |-> FALSE]

\* sort.Search(n, f): the binary search of the standard library, with
\* f(i) = entries[i].Key >= key.  The smallest index in [i, j) for which f
\* holds when f is monotone; whatever the bisection reaches when it is not.
RECURSIVE SortSearch(_, _, _, _)
SortSearch(entries, key, i, j) ==
    IF i < j
    THEN LET h == (i + j) \div 2
         IN  IF ~StrGeq(entries[h + 1].Key, key)
             THEN SortSearch(entries, key, h + 1, j)
             ELSE SortSearch(entries, key, i, h)
    ELSE i

\* idx := sort.Search(len(mt.entries), ...)
FindIdx(entries, key) == SortSearch(entries, key, 0, Len(entries))

\* A slip in the insertion: the entry is appended instead of placed at idx.
InsertAtEnd(entries, idx, e) == Append(entries, e)

\* append(entries, nil); copy(entries[idx+1:], entries[idx:]); entries[idx] = e
InsertAt(entries, idx, e) ==
    SubSeq(entries, 1, idx) \o <<e>> \o SubSeq(entries, idx + 1, Len(entries))

\* A slip in Set: the immutable flag is not looked at.
MemTableSetUnchecked(m, key, value, t) ==
    LET idx == FindIdx(m.entries, key)
    IN  IF idx < Len(m.entries) /\ m.entries[idx + 1].Key = key
        THEN [mt  |-> [m EXCEPT !.entries[idx + 1] = Entry(key, value, t, FALSE),
                                !.sizeBytes = m.sizeBytes - Len(m.entries[idx + 1].Value)
                                                  + Len(value)],
              err |-> FALSE]
        ELSE [mt  |-> [m EXCEPT !.entries = InsertAt(m.entries, idx,
                                                     Entry(key, value, t, FALSE)),
                                !.sizeBytes = m.sizeBytes + Len(key) + Len(value) + 24],
              err |-> FALSE]

\* A slip in Set's accounting: an update in place adds the whole entry size.
MemTableSetGrowing(m, key, value, t) ==
    IF m.immutable
    THEN [mt |-> m, err |-> TRUE]
    ELSE LET idx == FindIdx(m.entries, key)
         IN  [mt |-> [m EXCEPT !.entries =
                                   IF idx < Len(m.entries) /\ m.entries[idx + 1].Key = key
                                   THEN [m.entries EXCEPT ![idx + 1] = Entry(key, value, t, FALSE)]
                                   ELSE InsertAt(m.entries, idx, Entry(key, value, t, FALSE)),
                               !.sizeBytes = m.sizeBytes + Len(key) + Len(value) + 24],
              err |-> FALSE]

\* MemTable.Set: [mt |-> the MemTable after the call, err |-> it returned an error]
MemTableSet(m, key, value, t) ==
    IF m.immutable
    THEN [mt |-> m, err |-> TRUE]
    ELSE LET idx == FindIdx(m.entries, key)
             entrySize == Len(key) + Len(value) + 24
         IN  IF idx < Len(m.entries) /\ m.entries[idx + 1].Key = key
             THEN LET oldSize == Len(m.entries[idx + 1].Value)
                  IN  [mt  |-> [m EXCEPT !.entries[idx + 1] = Entry(key, value, t, FALSE),
                                         !.sizeBytes = m.sizeBytes - oldSize + Len(value)],
                       err |-> FALSE]
             ELSE [mt  |-> [m EXCEPT !.entries = InsertAt(m.entries, idx,
                                                          Entry(key, value, t, FALSE)),
                                     !.sizeBytes = m.sizeBytes + entrySize],
                   err |-> FALSE]

\* A slip in Delete: the value of an entry marked deleted is dropped.
MemTableDeleteClearing(m, key, t) ==
    IF m.immutable
    THEN [mt |-> m, err |-> TRUE]
    ELSE LET idx == FindIdx(m.entries, key)
         IN  IF idx < Len(m.entries) /\ m.entries[idx + 1].Key = key
             THEN [mt  |-> [m EXCEPT !.entries[idx + 1] = Entry(key, <<>>, t, TRUE)],
                   err |-> FALSE]
             ELSE [mt  |-> [m EXCEPT !.entries = InsertAt(m.entries, idx,
                                                          Entry(key, <<>>, t, TRUE)),
                                     !.sizeBytes = m.sizeBytes + Len(key) + 24],
                   err |-> FALSE]

\* MemTable.Delete
MemTableDelete(m, key, t) ==
    IF m.immutable
    THEN [mt |-> m, err |-> TRUE]
    ELSE LET idx == FindIdx(m.entries, key)
             entrySize == Len(key) + 24
         IN  IF idx < Len(m.entries) /\ m.entries[idx + 1].Key = key
             THEN [mt  |-> [m EXCEPT !.entries[idx + 1].Deleted = TRUE,
                                     !.entries[idx + 1].Timestamp = t],
                   err |-> FALSE]
             ELSE [mt  |-> [m EXCEPT !.entries = InsertAt(m.entries, idx,
                                                          Entry(key, <<>>, t, TRUE)),
                                     !.sizeBytes = m.sizeBytes + entrySize],
                   err |-> FALSE]

\* A slip in the lookup: the entry's value is returned whether or not the
\* entry is deleted.
MemTableGetAnyEntry(m, key) ==
    LET idx == FindIdx(m.entries, key)
    IN  IF idx < Len(m.entries) /\ m.entries[idx + 1].Key = key
        THEN [value |-> m.entries[idx + 1].Value, found |-> TRUE]
        ELSE [value |-> <<>>, found |-> FALSE]

\* MemTable.Get: [value, found]
MemTableGet(m, key) ==
    LET idx == FindIdx(m.entries, key)
    IN  IF idx < Len(m.entries) /\ m.entries[idx + 1].Key = key
        THEN IF m.entries[idx + 1].Deleted
             THEN [value |-> <<>>, found |-> FALSE]
             ELSE [value |-> m.entries[idx + 1].Value, found |-> TRUE]
        ELSE [value |-> <<>>, found |-> FALSE]

\* MemTable.ShouldFlush
ShouldFlush(m) == m.sizeBytes >= m.maxSize

\* MemTable.MakeImmutable
MakeImmutable(m) == [m EXCEPT !.immutable = TRUE]

\* MemTable.GetAllEntries: a copy of the entries, in their order
GetAllEntries(m) == m.entries

\* MemTable.IsImmutable
IsImmutable(m) == m.immutable


(***************************************************************************)
(* SSTable writer (encoding/binary, little endian)                         *)
(***************************************************************************)
\* 0xBABECAFE, as the four bytes binary.LittleEndian gives a uint32 of that
\* value (the number itself is beyond the integers TLC computes with).
MagicNumber == <<254, 202, 190, 186>>
Version == 1

\* A decoded number too large to be an offset, a count or a length in any
\* file of the model; reads at or past it fail like reads past the end.
Huge == 256 * 256 * 256

\* binary.LittleEndian encoding of n in w bytes.
RECURSIVE LE(_, _)
LE(n, w) == IF w = 0 THEN <<>> ELSE <<n % 256>> \o LE(n \div 256, w - 1)

\* binary.LittleEndian decoding of a fixed-size unsigned value.
RECURSIVE FromLE(_)
FromLE(b) ==
    IF b = <<>> THEN 0
    ELSE IF \E i \in 4..Len(b) : b[i] # 0 THEN Huge
    ELSE b[1] + 256 * FromLE(Tail(b))

\* binary.Write(file, binary.LittleEndian, data) by the Go type of data:
\* the bytes written and whether an error is returned.  binary.Write takes
\* fixed-size values only: for a value of type int (what an untyped integer
\* constant becomes when passed as interface{}) it writes nothing and returns
\* an error.
BinaryWrite(type, n) ==
    CASE type = "uint8"  -> [bytes |-> LE(n, 1), err |-> FALSE]
      [] type = "uint32" -> [bytes |-> LE(n, 4), err |-> FALSE]
      [] type = "int64"  -> [bytes |-> LE(n, 8), err |-> FALSE]
      [] type = "uint64" -> [bytes |-> LE(n, 8), err |-> FALSE]
      [] type = "int"    -> [bytes |-> <<>>, err |-> TRUE]

\* The Go type of the untyped constants Version and MagicNumber at their
\* use as the data argument of binary.Write.
UntypedConstType == "int"

\* WriteKey: uint32 length, then the key bytes
WriteKey(key) == BinaryWrite("uint32", Len(key)).bytes \o key

\* WriteValue: uint32 length, then the value bytes
WriteValue(value) == BinaryWrite("uint32", Len(value)).bytes \o value

\* WriteMetadata: int64 timestamp, then the deleted byte
WriteMetadata(timestamp, isDeleted) ==
    BinaryWrite("int64", timestamp).bytes
        \o BinaryWrite("uint8", IF isDeleted THEN 1 ELSE 0).bytes

\* WriteEntry (storage): the bytes of one entry; bytesWritten is their number
WriteEntry(e) == WriteKey(e.Key) \o WriteValue(e.Value) \o WriteMetadata(e.Timestamp, e.Deleted)

\* A slip in WriteEntries: the offset is advanced before the index entry is
\* appended, so each entry is indexed at its end.
RECURSIVE WriteEntriesOffsetAfter(_, _, _, _)
WriteEntriesOffsetAfter(entries, i, bytes, indexEntries) ==
    IF i > Len(entries)
    THEN [bytes |-> bytes, indexEntries |-> indexEntries]
    ELSE WriteEntriesOffsetAfter(entries, i + 1, bytes \o WriteEntry(entries[i]),
             Append(indexEntries, [Key |-> entries[i].Key,
                                   Offset |-> Len(bytes \o WriteEntry(entries[i]))]))

\* WriteEntries: [bytes, indexEntries], each IndexEntry{Key, Offset} holding
\* the offset its entry was written at.
RECURSIVE WriteEntries(_, _, _, _)
WriteEntries(entries, i, bytes, indexEntries) ==
    IF i > Len(entries)
    THEN [bytes |-> bytes, indexEntries |-> indexEntries]
    ELSE WriteEntries(entries, i + 1, bytes \o WriteEntry(entries[i]),
                      Append(indexEntries, [Key |-> entries[i].Key, Offset |-> Len(bytes)]))

\* WriteIndex: per index entry the uint32 key length, the key, the int64 offset
RECURSIVE WriteIndex(_, _)
WriteIndex(indexEntries, i) ==
    IF i > Len(indexEntries) THEN <<>>
    ELSE BinaryWrite("uint32", Len(indexEntries[i].Key)).bytes \o indexEntries[i].Key
            \o BinaryWrite("int64", indexEntries[i].Offset).bytes
            \o WriteIndex(indexEntries, i + 1)

\* The footer's fourth write: MagicNumber is passed as it is declared, so its
\* value does not reach the file unless binary.Write accepts its type.
WriteMagic(type) ==
    IF BinaryWrite(type, 0).err THEN [bytes |-> <<>>, err |-> TRUE]
    ELSE [bytes |-> MagicNumber, err |-> FALSE]

\* WriteFooter: uint64 index start, uint32 entry count, then Version and
\* MagicNumber; it returns at the first write that fails.
WriteFooter(indexStartOffset, numberOfEntries) ==
    LET w1 == BinaryWrite("uint64", indexStartOffset)
        w2 == BinaryWrite("uint32", numberOfEntries)
        w3 == BinaryWrite(UntypedConstType, Version)
        w4 == WriteMagic(UntypedConstType)
    IN  IF w1.err THEN [bytes |-> <<>>, err |-> TRUE]
        ELSE IF w2.err THEN [bytes |-> w1.bytes, err |-> TRUE]
        ELSE IF w3.err THEN [bytes |-> w1.bytes \o w2.bytes, err |-> TRUE]
        ELSE IF w4.err THEN [bytes |-> w1.bytes \o w2.bytes \o w3.bytes, err |-> TRUE]
        ELSE [bytes |-> w1.bytes \o w2.bytes \o w3.bytes \o w4.bytes, err |-> FALSE]

\* CreateSSTable(path, entries): [file |-> the bytes left at path, err]
\* os.Create truncates; the entries, the index and the footer follow; the
\* index starts at the file's size after the entries.
CreateSSTable(entries) ==
    LET we == WriteEntries(entries, 1, <<>>, <<>>)
        indexStartOffset == Len(we.bytes)
        wi == WriteIndex(we.indexEntries, 1)
        wf == WriteFooter(indexStartOffset, Len(entries))
    IN  [file |-> we.bytes \o wi \o wf.bytes, err |-> wf.err,
         indexEntries |-> we.indexEntries]

\* FlushMemTableToSSTable(memTable, path): an empty MemTable is an error and
\* no file is created.
FlushMemTableToSSTable(m) ==
    LET entries == GetAllEntries(m)
    IN  IF Len(entries) = 0
        THEN [file |-> <<>>, err |-> TRUE, created |-> FALSE]
        ELSE [file |-> CreateSSTable(entries).file, err |-> CreateSSTable(entries).err,
              created |-> TRUE]

(***************************************************************************)
(* SSTable reader                                                          *)
(***************************************************************************)
\* Reading n bytes at position pos (0-based) of a file: binary.Read and
\* io.ReadFull fail when fewer than n bytes are left.
ReadN(file, pos, n) ==
    IF pos + n <= Len(file)
    THEN [bytes |-> SubSeq(file, pos + 1, pos + n), err |-> FALSE]
    ELSE [bytes |-> <<>>, err |-> TRUE]

\* ReadFooter: the last 20 bytes as int64, uint32, uint32, uint32; a file
\* shorter than that and a magic other than MagicNumber are errors.
FooterSize == 20
ReadFooter(file) ==
    IF Len(file) < FooterSize
    THEN [err |-> TRUE, footer |-> <<>>]
    ELSE LET o == Len(file) - FooterSize
             magic == ReadN(file, o + 16, 4).bytes
         IN  IF magic # MagicNumber
             THEN [err |-> TRUE, footer |-> <<>>]
             ELSE [err |-> FALSE,
                   footer |-> [IndexStartOffset |-> FromLE(ReadN(file, o, 8).bytes),
                               NumberOfEntries  |-> FromLE(ReadN(file, o + 8, 4).bytes),
                               Version          |-> FromLE(ReadN(file, o + 12, 4).bytes),
                               MagicNumber      |-> magic]]

\* index[key] = offset
MapPut(index, key, offset) ==
    [k \in DOMAIN index \cup {key} |-> IF k = key THEN offset ELSE index[k]]

\* ReadIndex: NumberOfEntries records from IndexStartOffset on, each put in
\* the map (a later record of a key replaces an earlier one).
RECURSIVE ReadIndexLoop(_, _, _, _)
ReadIndexLoop(file, pos, left, index) ==
    IF left = 0 THEN [err |-> FALSE, index |-> index]
    ELSE LET kl == ReadN(file, pos, 4)
             keyLength == FromLE(kl.bytes)
             key == ReadN(file, pos + 4, keyLength)
             off == ReadN(file, pos + 4 + keyLength, 8)
         IN  IF kl.err \/ keyLength >= Huge \/ key.err \/ off.err
             THEN [err |-> TRUE, index |-> <<>>]
             ELSE ReadIndexLoop(file, pos + 4 + keyLength + 8, left - 1,
                                MapPut(index, key.bytes, FromLE(off.bytes)))

ReadIndex(file, footer) ==
    IF footer.IndexStartOffset >= Huge \/ footer.NumberOfEntries >= Huge
    THEN [err |-> TRUE, index |-> <<>>]
    ELSE ReadIndexLoop(file, footer.IndexStartOffset, footer.NumberOfEntries, <<>>)

\* ReadEntryAtOffset: [err, entry]
ReadEntryAtOffset(file, offset) ==
    LET kl == ReadN(file, offset, 4)
        keyLength == FromLE(kl.bytes)
        key == ReadN(file, offset + 4, keyLength)
        vl == ReadN(file, offset + 4 + keyLength, 4)
        valueLength == FromLE(vl.bytes)
        value == ReadN(file, offset + 8 + keyLength, valueLength)
        ts == ReadN(file, offset + 8 + keyLength + valueLength, 8)
        del == ReadN(file, offset + 16 + keyLength + valueLength, 1)
    IN  IF \/ offset >= Huge \/ kl.err \/ keyLength >= Huge \/ key.err
           \/ vl.err \/ valueLength >= Huge \/ value.err \/ ts.err \/ del.err
        THEN [err |-> TRUE, entry |-> <<>>]
        ELSE [err |-> FALSE,
              entry |-> Entry(key.bytes, value.bytes, FromLE(ts.bytes), del.bytes[1] # 0)]

\* OpenSSTable(filePath): [err, sstable]; the SSTable keeps the path of its
\* open file, the index and the footer.
OpenSSTable(files, filePath) ==
    IF filePath \notin DOMAIN files
    THEN [err |-> TRUE, sstable |-> <<>>]
    ELSE LET file == files[filePath]
             f == ReadFooter(file)
         IN  IF f.err THEN [err |-> TRUE, sstable |-> <<>>]
             ELSE LET ix == ReadIndex(file, f.footer)
                  IN  IF ix.err THEN [err |-> TRUE, sstable |-> <<>>]
                      ELSE [err |-> FALSE,
                            sstable |-> [filePath |-> filePath, index |-> ix.index,
                                         footer |-> f.footer]]

\* SSTable.Get: [value, found, err]
SSTableGet(files, s, key) ==
    IF key \notin DOMAIN s.index
    THEN [value |-> <<>>, found |-> FALSE, err |-> FALSE]
    ELSE LET r == ReadEntryAtOffset(files[s.filePath], s.index[key])
         IN  IF r.err THEN [value |-> <<>>, found |-> FALSE, err |-> TRUE]
             ELSE IF r.entry.Key # key THEN [value |-> <<>>, found |-> FALSE, err |-> TRUE]
             ELSE IF r.entry.Deleted THEN [value |-> <<>>, found |-> FALSE, err |-> FALSE]
             ELSE [value |-> r.entry.Value, found |-> TRUE, err |-> FALSE]

(***************************************************************************)
(* Compaction                                                              *)
(***************************************************************************)
\* mergeEntries: the entry with the greater timestamp, e2 on a tie
mergeEntries(e1, e2) == IF e1.Timestamp > e2.Timestamp THEN e1 ELSE e2

\* mergeSortedEntries: the two-index merge loop, from (i, j) on, then the
\* rest of whichever input is left.  i and j are 0-based.
RECURSIVE MergeLoop(_, _, _, _, _)
MergeLoop(entries1, entries2, i, j, mergedEntries) ==
    IF i < Len(entries1) /\ j < Len(entries2)
    THEN IF StrLess(entries1[i + 1].Key, entries2[j + 1].Key)
         THEN MergeLoop(entries1, entries2, i + 1, j, Append(mergedEntries, entries1[i + 1]))
         ELSE IF StrLess(entries2[j + 1].Key, entries1[i + 1].Key)
         THEN MergeLoop(entries1, entries2, i, j + 1, Append(mergedEntries, entries2[j + 1]))
         ELSE LET merged == mergeEntries(entries1[i + 1], entries2[j + 1])
              IN  MergeLoop(entries1, entries2, i + 1, j + 1,
                            IF ~merged.Deleted THEN Append(mergedEntries, merged)
                            ELSE mergedEntries)
    ELSE mergedEntries \o SubSeq(entries1, i + 1, Len(entries1))
                       \o SubSeq(entries2, j + 1, Len(entries2))

mergeSortedEntries(entries1, entries2) == MergeLoop(entries1, entries2, 0, 0, <<>>)

\* getAllEntriesFromSSTable: the entries the index leads to, in the order the
\* range over the map visits its keys (order: a sequence of the keys, which
\* Go leaves unspecified); an entry that cannot be read or whose key is not
\* the index's is skipped.
RECURSIVE getAllEntriesFromSSTable(_, _, _, _)
getAllEntriesFromSSTable(files, s, order, i) ==
    IF i > Len(order) THEN <<>>
    ELSE LET r == ReadEntryAtOffset(files[s.filePath], s.index[order[i]])
         IN  (IF r.err \/ r.entry.Key # order[i] THEN <<>> ELSE <<r.entry>>)
                \o getAllEntriesFromSSTable(files, s, order, i + 1)

\* CompactSSTables, the merge: merged = allEntries[0], then each further
\* input merged into it in turn.
RECURSIVE MergeAll(_, _, _)
MergeAll(allEntries, i, merged) ==
    IF i > Len(allEntries) THEN merged
    ELSE MergeAll(allEntries, i + 1, mergeSortedEntries(merged, allEntries[i]))

(***************************************************************************)
(* LSMStore                                                                *)
(***************************************************************************)
\* A path of the data directory: fmt.Sprintf("%s/sstable-%d.<ext>", dataDir, id)
SSTablePath(id, ext) == [id |-> id, ext |-> ext]

\* extractSSTableId
extractSSTableId(path) == path.id

\* LSMStore.Get: the active MemTable, the immutable one when the pointer is
\* not nil, then the SSTables in the order of the list; the first that
\* reports found answers, and an SSTable whose read fails is passed over.
RECURSIVE GetFromSSTables(_, _, _, _)
GetFromSSTables(files, sstables, i, key) ==
    IF i > Len(sstables) THEN [value |-> <<>>, found |-> FALSE]
    ELSE LET r == SSTableGet(files, sstables[i], key)
         IN  IF ~r.err /\ r.found THEN [value |-> r.value, found |-> TRUE]
             ELSE GetFromSSTables(files, sstables, i + 1, key)

LSMStoreGet(files, st, key) ==
    LET r1 == MemTableGet(st.memTable, key)
    IN  IF r1.found THEN r1
        ELSE IF st.immutableMemTable # <<>> /\ MemTableGet(st.immutableMemTable[1], key).found
             THEN MemTableGet(st.immutableMemTable[1], key)
             ELSE GetFromSSTables(files, st.sstables, 1, key)

\* rotateMemTable: [store, err, spawned]; the active MemTable is sealed
\* first; with a sealed MemTable in the immutable slot the call gives up
\* (after its sleep, under the store's lock, during which the slot cannot
\* change); otherwise the active MemTable moves to the slot, a new one takes
\* its place and a flusher goroutine is started.
rotateMemTable(st) ==
    LET sealed == [st EXCEPT !.memTable = MakeImmutable(st.memTable)]
    IN  IF sealed.immutableMemTable # <<>> /\ IsImmutable(sealed.immutableMemTable[1])
        THEN [store |-> sealed, err |-> TRUE, spawned |-> FALSE]
        ELSE [store |-> [sealed EXCEPT !.immutableMemTable = <<sealed.memTable>>,
                                       !.memTable = NewMemTable(sealed.memtableSize)],
              err |-> FALSE, spawned |-> TRUE]

\* A slip in Set and Delete: the full MemTable is not rotated.
AfterWriteNoRotation(st, r) ==
    IF r.err THEN [store |-> st, err |-> TRUE, spawned |-> FALSE]
    ELSE [store |-> [st EXCEPT !.memTable = r.mt], err |-> FALSE, spawned |-> FALSE]

\* The part of Set and Delete after the MemTable call r: its error is
\* returned; a full MemTable is rotated.
AfterWrite(st, r) ==
    IF r.err THEN [store |-> st, err |-> TRUE, spawned |-> FALSE]
    ELSE LET st1 == [st EXCEPT !.memTable = r.mt]
         IN  IF ShouldFlush(st1.memTable) THEN rotateMemTable(st1)
             ELSE [store |-> st1, err |-> FALSE, spawned |-> FALSE]

\* LSMStore.Set
LSMStoreSet(st, key, value, t) == AfterWrite(st, MemTableSet(st.memTable, key, value, t))

\* LSMStore.Delete
LSMStoreDelete(st, key, t) == AfterWrite(st, MemTableDelete(st.memTable, key, t))

\* loadSSTables: the files matching sstable-*.db, sorted by id ascending,
\* each opened and appended; nextSSTableID ends above the largest id.
RECURSIVE SortById(_)
SortById(paths) ==
    IF paths = {} THEN <<>>
    ELSE LET p == CHOOSE x \in paths :
                    \A y \in paths : extractSSTableId(x) <= extractSSTableId(y)
         IN  <<p>> \o SortById(paths \ {p})

\* A slip in the loading loop: the next id counts the files loaded.
LoadLoopCounting(files, sorted, i, st) ==
    LET opened == [j \in 1..Len(sorted) |-> OpenSSTable(files, sorted[j])]
    IN  IF \E j \in 1..Len(sorted) : opened[j].err
        THEN [store |-> st, err |-> TRUE]
        ELSE [store |-> [st EXCEPT !.sstables = [j \in 1..Len(sorted) |-> opened[j].sstable],
                                   !.nextSSTableID = Len(sorted)],
              err |-> FALSE]

RECURSIVE LoadLoop(_, _, _, _)
LoadLoop(files, sorted, i, st) ==
    IF i > Len(sorted) THEN [store |-> st, err |-> FALSE]
    ELSE LET r == OpenSSTable(files, sorted[i])
             id == extractSSTableId(sorted[i])
         IN  IF r.err THEN [store |-> st, err |-> TRUE]
             ELSE LoadLoop(files, sorted, i + 1,
                           [st EXCEPT !.sstables = Append(@, r.sstable),
                                      !.nextSSTableID = IF id >= @ THEN id + 1 ELSE @])

loadSSTables(files, st) ==
    LoadLoop(files, SortById({p \in DOMAIN files : p.ext = "db"}), 1, st)

\* NewLSMStore(memtableSize, dataDir): [store, err]; both MemTable pointers
\* start at a new MemTable.
NewLSMStore(files, memtableSize) ==
    loadSSTables(files,
                 [memTable |-> NewMemTable(memtableSize),
                  immutableMemTable |-> <<NewMemTable(memtableSize)>>,
                  sstables |-> <<>>,
                  memtableSize |-> memtableSize,
                  nextSSTableID |-> 0])

\* A slip in the first critical section: the slot is emptied as soon as the
\* flusher has taken its MemTable.
FlushTakeClearing(st) ==
    IF st.immutableMemTable = <<>>
    THEN [store |-> st, done |-> TRUE, task |-> <<>>]
    ELSE [store |-> [st EXCEPT !.nextSSTableID = @ + 1, !.immutableMemTable = <<>>],
          done |-> FALSE,
          task |-> [pc |-> "io", memtableToFlush |-> st.immutableMemTable[1],
                    sstableID |-> st.nextSSTableID]]

\* flushImmutableMemTable, under the first lock: with the slot empty the
\* goroutine returns; otherwise it takes the MemTable of the slot and the
\* next id.
FlushTake(st) ==
    IF st.immutableMemTable = <<>>
    THEN [store |-> st, done |-> TRUE, task |-> <<>>]
    ELSE [store |-> [st EXCEPT !.nextSSTableID = @ + 1],
          done |-> FALSE,
          task |-> [pc |-> "io", memtableToFlush |-> st.immutableMemTable[1],
                    sstableID |-> st.nextSSTableID]]

\* flushImmutableMemTable, the rest: the file is written at
\* sstable-<id>.sst and opened; when either fails the goroutine returns;
\* otherwise, under the lock, the SSTable is prepended to the list and the
\* slot emptied.
FlushWrite(files, st, task) ==
    LET path == SSTablePath(task.sstableID, "sst")
        w == FlushMemTableToSSTable(task.memtableToFlush)
        files1 == IF w.created THEN MapPut(files, path, w.file) ELSE files
        o == OpenSSTable(files1, path)
    IN  IF w.err \/ o.err
        THEN [files |-> files1, store |-> st, published |-> FALSE]
        ELSE [files |-> files1,
              store |-> [st EXCEPT !.sstables = <<o.sstable>> \o @,
                                   !.immutableMemTable = <<>>],
              published |-> TRUE]

(***************************************************************************)
(* The other components' state.  Every specification below moves the       *)
(* variables of one component and leaves the others as they start.         *)
(***************************************************************************)
VARIABLES
    mtLast,     \* the last call on mt and what it returned
    disk,       \* the files on disk: path -> bytes
    sst,        \* one run of CreateSSTable followed by OpenSSTable
    cmp,        \* one run of CompactSSTables
    store,      \* the LSMStore
    flushers,   \* the flushImmutableMemTable goroutines
    hist,       \* what the callers of the LSMStore have seen (history)
    srv,        \* the command handler's Store and WAL (package main)
    walDisk     \* the bytes of wal.log

vars == <<now, mt, mtLast, disk, sst, cmp, store, flushers, hist, srv, walDisk>>

memVars == <<mt, mtLast>>
sstVars == <<sst>>
cmpVars == <<cmp>>
lsmVars == <<store, flushers, hist>>
srvVars == <<srv, walDisk>>

\* The value a component's variables keep in a specification that does not use it.
Idle == <<>>

(***************************************************************************)
(* SpecMem: a MemTable under any sequence of Set, Delete and MakeImmutable *)
(***************************************************************************)
InitMem ==
    /\ now = 0
    /\ mt = NewMemTable(MemTableSize)
    /\ mtLast = [op |-> "none", key |-> <<>>, value |-> <<>>, err |-> FALSE]
    /\ disk = Idle /\ sst = Idle /\ cmp = Idle
    /\ store = Idle /\ flushers = Idle /\ hist = Idle
    /\ srv = Idle /\ walDisk = Idle

\* mt.Set(k, v); the clock is read only past the immutable check.
MtSet(k, v) ==
    /\ now < MaxTime
    /\ LET r == MemTableSet(mt, k, v, Tick(now))
       IN  /\ mt' = r.mt
           /\ mtLast' = [op |-> "Set", key |-> k, value |-> v, err |-> r.err]
           /\ now' = IF r.err THEN now ELSE Tick(now)
    /\ UNCHANGED <<disk, sstVars, cmpVars, lsmVars, srvVars>>

\* mt.Delete(k)
MtDelete(k) ==
    /\ now < MaxTime
    /\ LET r == MemTableDelete(mt, k, Tick(now))
       IN  /\ mt' = r.mt
           /\ mtLast' = [op |-> "Delete", key |-> k, value |-> <<>>, err |-> r.err]
           /\ now' = IF r.err THEN now ELSE Tick(now)
    /\ UNCHANGED <<disk, sstVars, cmpVars, lsmVars, srvVars>>

\* mt.MakeImmutable()
MtMakeImmutable ==
    /\ ~mt.immutable
    /\ mt' = MakeImmutable(mt)
    /\ mtLast' = [op |-> "MakeImmutable", key |-> <<>>, value |-> <<>>, err |-> FALSE]
    /\ UNCHANGED <<now, disk, sstVars, cmpVars, lsmVars, srvVars>>

NextMem ==
    \/ \E k \in Keys, v \in Values : MtSet(k, v)
    \/ \E k \in Keys : MtDelete(k)
    \/ MtMakeImmutable

SpecMem == InitMem /\ [][NextMem]_vars

\* The entries of a sequence are strictly ascending by key.
StrictlySorted(entries) ==
    \A i \in 1..(Len(entries) - 1) : StrLess(entries[i].Key, entries[i + 1].Key)

\* C10: after any sequence of Set and Delete calls on a MemTable, the entries
\* GetAllEntries returns are strictly ascending by key (so no key appears twice).
C10_SortedUnique == StrictlySorted(GetAllEntries(mt))

\* C10's case: a MemTable that Set and Delete have both inserted into, holding
\* every key, after an insertion in front of an existing entry.
C10_Witness ==
    /\ Len(GetAllEntries(mt)) = Cardinality(Keys)
    /\ \E i \in 1..Len(mt.entries) : mt.entries[i].Deleted
    /\ \E i \in 1..Len(mt.entries) : ~mt.entries[i].Deleted
    /\ \E i \in 1..(Len(mt.entries) - 1) :
          mt.entries[i].Timestamp > mt.entries[i + 1].Timestamp

\* C11: on a MemTable the newer write wins: after a Set(k, v) that returned
\* no error, whatever was written to k before, Get(k) = v; after a Delete(k)
\* that returned no error, whatever was written to k before, Get(k) is
\* not-found.
C11_NewerWins ==
    /\ (mtLast.op = "Set" /\ ~mtLast.err) =>
          MemTableGet(mt, mtLast.key) = [value |-> mtLast.value, found |-> TRUE]
    /\ (mtLast.op = "Delete" /\ ~mtLast.err) =>
          MemTableGet(mt, mtLast.key) = [value |-> <<>>, found |-> FALSE]

\* C11's case: a Delete(k) after a Set(k, v): the entry still carries v under
\* its tombstone, and Get(k) is not-found.
C11_Witness ==
    /\ mtLast.op = "Delete" /\ ~mtLast.err
    /\ \E i \in 1..Len(mt.entries) :
          /\ mt.entries[i].Key = mtLast.key
          /\ mt.entries[i].Deleted
          /\ mt.entries[i].Value # <<>>
    /\ ~MemTableGet(mt, mtLast.key).found


(***************************************************************************)
(* SpecSST: CreateSSTable on an entry sequence, then OpenSSTable on the    *)
(* file it left                                                            *)
(***************************************************************************)
\* The entry sequences CreateSSTable is called with have at most this many entries.
MaxSstEntries == 2

\* The empty map, and the directory with no files.
EmptyMap == <<>>

\* Timestamps of one and of two significant bytes.
SstTimestamps == {1, 300}
SstEntrySet ==
    {Entry(k, v, ts, d) : k \in Keys, v \in Values \cup {<<>>}, ts \in SstTimestamps,
                          d \in BOOLEAN}

RECURSIVE SeqsUpTo(_, _)
SeqsUpTo(S, n) ==
    IF n = 0 THEN {<<>>}
    ELSE SeqsUpTo(S, n - 1)
            \cup {Append(q, x) : q \in {r \in SeqsUpTo(S, n - 1) : Len(r) = n - 1}, x \in S}

\* The path the run writes and opens.
SstPath == [id |-> 0, ext |-> "sst"]

InitSST ==
    /\ now = 0
    /\ disk = EmptyMap
    /\ \E E \in SeqsUpTo(SstEntrySet, MaxSstEntries) :
          sst = [pc |-> "start", entries |-> E, createErr |-> FALSE,
                 indexEntries |-> <<>>, openErr |-> FALSE, sstable |-> <<>>]
    /\ mt = Idle /\ mtLast = Idle /\ cmp = Idle
    /\ store = Idle /\ flushers = Idle /\ hist = Idle
    /\ srv = Idle /\ walDisk = Idle

\* CreateSSTable(SstPath, sst.entries)
SstCreate ==
    /\ sst.pc = "start"
    /\ LET r == CreateSSTable(sst.entries)
       IN  /\ disk' = MapPut(disk, SstPath, r.file)
           /\ sst' = [sst EXCEPT !.pc = "created", !.createErr = r.err,
                                 !.indexEntries = r.indexEntries]
    /\ UNCHANGED <<now, memVars, cmpVars, lsmVars, srvVars>>

\* OpenSSTable(SstPath)
SstOpen ==
    /\ sst.pc = "created"
    /\ LET r == OpenSSTable(disk, SstPath)
       IN  sst' = [sst EXCEPT !.pc = "opened", !.openErr = r.err, !.sstable = r.sstable]
    /\ UNCHANGED <<now, disk, memVars, cmpVars, lsmVars, srvVars>>

NextSST == SstCreate \/ SstOpen

SpecSST == InitSST /\ [][NextSST]_vars

\* A non-empty entry sequence sorted by key with unique keys.
SortedDedup(E) == Len(E) > 0 /\ StrictlySorted(E)

\* The last n bytes of a file.
LastBytes(file, n) == SubSeq(file, Len(file) - n + 1, Len(file))

\* C8: for a non-empty entry sequence E sorted by key with unique keys, opening
\* the file CreateSSTable(E) wrote succeeds, reading every indexed key yields
\* exactly the entries of E, and the index maps each key to the offset the
\* writer recorded for it.
C8_RoundTrip ==
    (sst.pc = "opened" /\ SortedDedup(sst.entries)) =>
        /\ ~sst.createErr
        /\ ~sst.openErr
        /\ DOMAIN sst.sstable.index = {sst.entries[i].Key : i \in 1..Len(sst.entries)}
        /\ \A i \in 1..Len(sst.entries) :
              /\ sst.sstable.index[sst.entries[i].Key] = sst.indexEntries[i].Offset
              /\ ReadEntryAtOffset(disk[SstPath], sst.sstable.index[sst.entries[i].Key])
                    = [err |-> FALSE, entry |-> sst.entries[i]]

\* C9: CreateSSTable succeeds on a non-empty sorted entry sequence, and the
\* file it wrote ends with the 20 footer bytes: uint64 index start, uint32
\* entry count, uint32 version 1, and the magic 0xBABECAFE in little endian
\* as the last 4 bytes.
C9_Footer ==
    (sst.pc # "start" /\ SortedDedup(sst.entries)) =>
        /\ ~sst.createErr
        /\ Len(disk[SstPath]) >= FooterSize
        /\ LastBytes(disk[SstPath], 4) = MagicNumber
        /\ LastBytes(disk[SstPath], FooterSize)
              = LE(Len(WriteEntries(sst.entries, 1, <<>>, <<>>).bytes), 8)
                    \o LE(Len(sst.entries), 4) \o LE(Version, 4) \o MagicNumber


(***************************************************************************)
(* SpecCompact: CompactSSTables on a list of SSTables, newest first        *)
(***************************************************************************)
\* CompactSSTables is called with at most this many SSTables.
MaxInputs == 3

\* The keys of the SSTables compacted: "a", "b".
CmpKeys == {<<97>>, <<98>>}

\* A file in the format OpenSSTable accepts: the entries, the index, and the
\* 20 footer bytes with version and magic.
WellFormedFile(E) ==
    LET we == WriteEntries(E, 1, <<>>, <<>>)
    IN  we.bytes \o WriteIndex(we.indexEntries, 1)
            \o LE(Len(we.bytes), 8) \o LE(Len(E), 4) \o LE(Version, 4) \o MagicNumber

\* The keys of a set as a sequence in ascending order.
RECURSIVE SortedKeys(_)
SortedKeys(S) ==
    IF S = {} THEN <<>>
    ELSE LET k == CHOOSE x \in S : \A y \in S \ {x} : StrLess(x, y)
         IN  <<k>> \o SortedKeys(S \ {k})

\* What one SSTable of the list holds for each key: nothing, a value or a tombstone.
Contents == [CmpKeys -> {"absent", "live", "tombstone"}]

\* The entries of input i of n (1 is the newest) holding c: sorted by key; a
\* live entry's value names the input ("1", "2", ...); every entry of a newer
\* input has a greater timestamp than every entry of an older one.
InputEntries(c, i, n) ==
    LET ks == SortedKeys({k \in CmpKeys : c[k] # "absent"})
    IN  [p \in 1..Len(ks) |->
            Entry(ks[p], IF c[ks[p]] = "live" THEN <<48 + i>> ELSE <<>>,
                  (n - i) * Cardinality(CmpKeys) + p, c[ks[p]] = "tombstone")]

CmpPath(i) == [id |-> i, ext |-> "db"]
CmpOutputPath == [id |-> 0, ext |-> "db"]

\* The orders a range over a map with the keys S may visit them in.
Orders(S) == {q \in [1..Cardinality(S) -> S] : \A a, b \in DOMAIN q : q[a] = q[b] => a = b}

InitCompact ==
    /\ now = 0
    /\ \E n \in 0..MaxInputs : \E cs \in [1..n -> Contents \ {[k \in CmpKeys |-> "absent"]}] :
          /\ disk = [p \in {CmpPath(i) : i \in 1..n} |->
                        WellFormedFile(InputEntries(cs[p.id], p.id, n))]
          /\ cmp = [pc |-> "start",
                    sstables |-> [i \in 1..n |-> OpenSSTable(disk, CmpPath(i)).sstable],
                    allEntries |-> <<>>, merged |-> <<>>, err |-> FALSE, out |-> <<>>]
    /\ mt = Idle /\ mtLast = Idle /\ sst = Idle
    /\ store = Idle /\ flushers = Idle /\ hist = Idle
    /\ srv = Idle /\ walDisk = Idle

\* CompactSSTables with no SSTable (an error) or with one (its own path is
\* returned and nothing is written).
CmpTrivial ==
    /\ cmp.pc = "start" /\ Len(cmp.sstables) <= 1
    /\ cmp' = [cmp EXCEPT !.pc = "done", !.err = (Len(cmp.sstables) = 0),
                          !.out = IF Len(cmp.sstables) = 0 THEN <<>>
                                  ELSE <<cmp.sstables[1].filePath>>]
    /\ UNCHANGED <<now, disk, memVars, sstVars, lsmVars, srvVars>>

\* allEntries[i] = getAllEntriesFromSSTable(sst), for the next input
CmpRead ==
    /\ cmp.pc \in {"start", "read"} /\ Len(cmp.sstables) >= 2
    /\ Len(cmp.allEntries) < Len(cmp.sstables)
    /\ LET s == cmp.sstables[Len(cmp.allEntries) + 1]
       IN  \E order \in Orders(DOMAIN s.index) :
              cmp' = [cmp EXCEPT !.pc = "read",
                         !.allEntries = Append(@, getAllEntriesFromSSTable(disk, s, order, 1))]
    /\ UNCHANGED <<now, disk, memVars, sstVars, lsmVars, srvVars>>

\* the merge of all inputs
CmpMerge ==
    /\ cmp.pc = "read" /\ Len(cmp.allEntries) = Len(cmp.sstables)
    /\ cmp' = [cmp EXCEPT !.pc = "merged",
                          !.merged = MergeAll(cmp.allEntries, 2, cmp.allEntries[1])]
    /\ UNCHANGED <<now, disk, memVars, sstVars, lsmVars, srvVars>>

\* CreateSSTable(outputPath, merged), and the return
CmpWrite ==
    /\ cmp.pc = "merged"
    /\ LET r == CreateSSTable(cmp.merged)
       IN  /\ disk' = MapPut(disk, CmpOutputPath, r.file)
           /\ cmp' = [cmp EXCEPT !.pc = "done", !.err = r.err,
                                 !.out = IF r.err THEN <<>> ELSE <<CmpOutputPath>>]
    /\ UNCHANGED <<now, memVars, sstVars, lsmVars, srvVars>>

NextCompact == CmpTrivial \/ CmpRead \/ CmpMerge \/ CmpWrite

SpecCompact == InitCompact /\ [][NextCompact]_vars

\* The entry an SSTable holds for a key of its index.
EntryOf(s, k) == ReadEntryAtOffset(disk[s.filePath], s.index[k]).entry

\* Looking a key up through a list of SSTables, newest first: the first one
\* that holds an entry for the key decides, a tombstone as not-found.
RECURSIVE LookupNewestFirst(_, _, _)
LookupNewestFirst(sstables, i, k) ==
    IF i > Len(sstables) THEN [value |-> <<>>, found |-> FALSE]
    ELSE IF k \in DOMAIN sstables[i].index
         THEN IF EntryOf(sstables[i], k).Deleted
              THEN [value |-> <<>>, found |-> FALSE]
              ELSE [value |-> EntryOf(sstables[i], k).Value, found |-> TRUE]
         ELSE LookupNewestFirst(sstables, i + 1, k)

\* Looking a key up in the SSTable written from an entry sequence: the index
\* leads to the last entry written for the key.
LookupWritten(E, k) ==
    LET at == {i \in 1..Len(E) : E[i].Key = k}
    IN  IF at = {} THEN [value |-> <<>>, found |-> FALSE]
        ELSE LET last == CHOOSE i \in at : \A j \in at : j <= i
             IN  IF E[last].Deleted THEN [value |-> <<>>, found |-> FALSE]
                 ELSE [value |-> E[last].Value, found |-> TRUE]

\* C6: for every key, looking it up through the inputs newest first before
\* compaction gives what looking it up in the compacted output gives (the
\* output being the merged entries CompactSSTables writes).
C6_CompactionPreservesVisibility ==
    cmp.pc = "merged" =>
        \A k \in CmpKeys : LookupNewestFirst(cmp.sstables, 1, k) = LookupWritten(cmp.merged, k)

\* The entries the inputs hold for a key.
InputVersions(k) ==
    {EntryOf(cmp.sstables[i], k) : i \in {j \in 1..Len(cmp.sstables) : k \in DOMAIN cmp.sstables[j].index}}

\* C7: over n >= 2 inputs the output holds, for each key of any input, exactly
\* the entry with the highest timestamp among the inputs, and no entry at all
\* for the key when that entry is a tombstone.
C7_NewestWinsTombstonesDropped ==
    (cmp.pc = "merged" /\ Len(cmp.sstables) >= 2) =>
        \A k \in CmpKeys :
            LET vs == InputVersions(k)
                out == {i \in 1..Len(cmp.merged) : cmp.merged[i].Key = k}
            IN  IF vs = {} THEN out = {}
                ELSE LET newest == CHOOSE e \in vs : \A f \in vs : f.Timestamp <= e.Timestamp
                     IN  IF newest.Deleted THEN out = {}
                         ELSE /\ Cardinality(out) = 1
                              /\ \A i \in out : cmp.merged[i] = newest


(***************************************************************************)
(* SpecLSM: the LSMStore under Set, Delete and its flusher goroutines      *)
(***************************************************************************)
\* The data directory holds at most this many SSTable files when the store starts.
MaxLoaded == 2

\* The keys the store is called with: "a", "b".
LsmKeys == {<<97>>, <<98>>}

\* The SSTable files of earlier runs: sstable-0.db the oldest.  The values
\* name the file ("1" for the newest), as in InputEntries.
LoadedFiles(n, cs) ==
    [p \in {SSTablePath(id, "db") : id \in 0..(n - 1)} |->
        WellFormedFile(InputEntries(cs[n - p.id], n - p.id, n))]

\* What a file of an earlier run holds: key "a", live or deleted.
LoadedContents ==
    {[k \in CmpKeys |-> IF k = <<97>> THEN x ELSE "absent"] : x \in {"live", "deleted"}}

NoTask == [pc |-> "start", memtableToFlush |-> <<>>, sstableID |-> 0]

InitLSM ==
    /\ \E n \in 0..MaxLoaded : \E cs \in [1..n -> LoadedContents] :
          /\ disk = LoadedFiles(n, cs)
          /\ now = n * Cardinality(CmpKeys)
          /\ store = NewLSMStore(disk, MemTableSize).store
          /\ hist = [last |-> [k \in LsmKeys |-> [op |-> "none", value |-> <<>>]],
                     call |-> [op |-> "none", key |-> <<>>, value |-> <<>>, err |-> FALSE],
                     rotations |-> 0, t0 |-> now, restarted |-> FALSE]
    /\ flushers = <<>>
    /\ mt = Idle /\ mtLast = Idle /\ sst = Idle /\ cmp = Idle
    /\ srv = Idle /\ walDisk = Idle

\* The history after a call: a write that returned no error is the key's
\* most recent successful write.
Recorded(op, k, v, r) ==
    [hist EXCEPT !.last[k] = IF r.err THEN @ ELSE [op |-> op, value |-> v],
                 !.call = [op |-> op, key |-> k, value |-> v, err |-> r.err],
                 !.rotations = IF r.spawned THEN @ + 1 ELSE @,
                 !.restarted = FALSE]

\* The clock is read by a call that gets past the MemTable's immutable check.
ClockLeft == now - hist.t0 < MaxTime

\* store.Set(k, v), under the store's lock
LsmSet(k, v) ==
    /\ ClockLeft \/ store.memTable.immutable
    /\ LET r == LSMStoreSet(store, k, v, Tick(now))
       IN  /\ store' = r.store
           /\ flushers' = IF r.spawned THEN Append(flushers, NoTask) ELSE flushers
           /\ hist' = Recorded("Set", k, v, r)
           /\ now' = IF store.memTable.immutable THEN now ELSE Tick(now)
    /\ UNCHANGED <<disk, memVars, sstVars, cmpVars, srvVars>>

\* store.Delete(k), under the store's lock
LsmDelete(k) ==
    /\ ClockLeft \/ store.memTable.immutable
    /\ LET r == LSMStoreDelete(store, k, Tick(now))
       IN  /\ store' = r.store
           /\ flushers' = IF r.spawned THEN Append(flushers, NoTask) ELSE flushers
           /\ hist' = Recorded("Delete", k, <<>>, r)
           /\ now' = IF store.memTable.immutable THEN now ELSE Tick(now)
    /\ UNCHANGED <<disk, memVars, sstVars, cmpVars, srvVars>>

\* The sequence without its i-th element.
RemoveAt(q, i) == SubSeq(q, 1, i - 1) \o SubSeq(q, i + 1, Len(q))

\* A flusher's first critical section.
FlushBegin(i) ==
    /\ flushers[i].pc = "start"
    /\ LET r == FlushTake(store)
       IN  /\ store' = r.store
           /\ flushers' = IF r.done THEN RemoveAt(flushers, i)
                          ELSE [flushers EXCEPT ![i] = r.task]
    /\ UNCHANGED <<now, disk, hist, memVars, sstVars, cmpVars, srvVars>>

\* A flusher's write, open and publication; the goroutine ends.
FlushFinish(i) ==
    /\ flushers[i].pc = "io"
    /\ LET r == FlushWrite(disk, store, flushers[i])
       IN  /\ disk' = r.files
           /\ store' = r.store
    /\ flushers' = RemoveAt(flushers, i)
    /\ UNCHANGED <<now, hist, memVars, sstVars, cmpVars, srvVars>>

\* The process is killed after a call and started again on the same data
\* directory: memory and goroutines are gone, NewLSMStore runs.
LsmRestart ==
    /\ hist.call.op # "none" /\ ~hist.restarted
    /\ store' = NewLSMStore(disk, MemTableSize).store
    /\ flushers' = <<>>
    /\ hist' = [hist EXCEPT !.last = [k \in LsmKeys |-> [op |-> "none", value |-> <<>>]],
                            !.rotations = 0,
                            !.restarted = TRUE]
    /\ UNCHANGED <<now, disk, memVars, sstVars, cmpVars, srvVars>>

NextLSM ==
    \/ \E k \in LsmKeys, v \in Values : LsmSet(k, v)
    \/ \E k \in LsmKeys : LsmDelete(k)
    \/ \E i \in DOMAIN flushers : FlushBegin(i)
    \/ \E i \in DOMAIN flushers : FlushFinish(i)
    \/ LsmRestart

SpecLSM == InitLSM /\ [][NextLSM]_vars

\* What Get answers for a key in the current state.
Found(v) == [value |-> v, found |-> TRUE]
NotFound == [value |-> <<>>, found |-> FALSE]

\* C1: across rotations and flushes, Get(k) returns the value of the most
\* recent successful Set(k, v), and not-found when the most recent successful
\* write to k was a Delete.
C1_ReadYourWrites ==
    hist.rotations >= 1 =>
        \A k \in LsmKeys :
            /\ hist.last[k].op = "Set" => LSMStoreGet(disk, store, k) = Found(hist.last[k].value)
            /\ hist.last[k].op = "Delete" => LSMStoreGet(disk, store, k) = NotFound

\* The structures Get consults, in its order: the active MemTable, the
\* immutable MemTable when present, the SSTables in list order; each as what
\* it holds for a key: <<>> for no entry, or <<entry>>.
MemHolds(m, k) ==
    LET at == {i \in 1..Len(m.entries) : m.entries[i].Key = k}
    IN  IF at = {} THEN <<>> ELSE <<m.entries[CHOOSE i \in at : TRUE]>>

SstHolds(s, k) == IF k \in DOMAIN s.index THEN <<EntryOf(s, k)>> ELSE <<>>

Consulted(k) ==
    <<MemHolds(store.memTable, k)>>
        \o (IF store.immutableMemTable = <<>> THEN <<>>
            ELSE <<MemHolds(store.immutableMemTable[1], k)>>)
        \o [i \in 1..Len(store.sstables) |-> SstHolds(store.sstables[i], k)]

\* The answer of the first structure of a list that holds an entry.
RECURSIVE FirstHolder(_, _)
FirstHolder(hs, i) ==
    IF i > Len(hs) THEN NotFound
    ELSE IF hs[i] # <<>>
         THEN IF hs[i][1].Deleted THEN NotFound ELSE Found(hs[i][1].Value)
         ELSE FirstHolder(hs, i + 1)

\* C2: Get answers from the first structure, in its order of consultation,
\* that holds an entry for the key: not-found when that entry is a tombstone,
\* whatever older structures hold.
C2_FirstHolderDecides ==
    \A k \in LsmKeys : LSMStoreGet(disk, store, k) = FirstHolder(Consulted(k), 1)

\* C3: a Set(k, v) that returned ok, the process killed before any further
\* operation: after the restart Get(k) = v; a Delete(k) that returned ok:
\* after the restart Get(k) is not-found.
C3_Durability ==
    (hist.restarted /\ ~hist.call.err) =>
        /\ hist.call.op = "Set" =>
              LSMStoreGet(disk, store, hist.call.key) = Found(hist.call.value)
        /\ hist.call.op = "Delete" =>
              LSMStoreGet(disk, store, hist.call.key) = NotFound


(***************************************************************************)
(* SpecSrv: the server's executeCommand over Store and its WAL             *)
(***************************************************************************)
\* The WAL file holds at most this many lines when the server starts.
MaxWalLines == 2

\* "SET", "DEL", "|", "\n", "\r"
OpSET == <<83, 69, 84>>
OpDEL == <<68, 69, 76>>
Bar == 124
NewLine == 10
Return == 13

\* fmt's %d of a non-negative integer
RECURSIVE Decimal(_)
Decimal(n) == IF n < 10 THEN <<48 + n>> ELSE Append(Decimal(n \div 10), 48 + (n % 10))

\* fmt.Sprintf("%d|%s|%s|%s\n", timestamp, operation, key, value)
FormatEntry(timestamp, operation, key, value) ==
    Decimal(timestamp) \o <<Bar>> \o operation \o <<Bar>> \o key \o <<Bar>> \o value
        \o <<NewLine>>

\* bufio.Scanner with ScanLines: the lines of a file, each without its "\n"
\* and without a "\r" before it; an unterminated last line counts when it is
\* not empty.
RECURSIVE ScanLines(_, _, _)
ScanLines(file, i, line) ==
    LET dropCR == IF Len(line) > 0 /\ line[Len(line)] = Return
                  THEN SubSeq(line, 1, Len(line) - 1) ELSE line
    IN  IF i > Len(file) THEN (IF line = <<>> THEN <<>> ELSE <<dropCR>>)
        ELSE IF file[i] = NewLine THEN <<dropCR>> \o ScanLines(file, i + 1, <<>>)
        ELSE ScanLines(file, i + 1, Append(line, file[i]))

\* strings.SplitN(line, "|", n)
RECURSIVE SplitN(_, _, _, _)
SplitN(line, n, i, part) ==
    IF n = 1 THEN <<part \o SubSeq(line, i, Len(line))>>
    ELSE IF i > Len(line) THEN <<part>>
    ELSE IF line[i] = Bar THEN <<part>> \o SplitN(line, n - 1, i + 1, <<>>)
    ELSE SplitN(line, n, i + 1, Append(part, line[i]))

\* Store.Set and Store.Delete on the data map
StoreSet(data, key, value) ==
    [k \in DOMAIN data \cup {key} |-> IF k = key THEN value ELSE data[k]]

StoreDelete(data, key) == [k \in DOMAIN data \ {key} |-> data[k]]

\* Store.Get: (value, exists)
StoreGet(data, key) ==
    IF key \in DOMAIN data THEN [value |-> data[key], exists |-> TRUE]
    ELSE [value |-> <<>>, exists |-> FALSE]

\* A slip in the replay: a record with fewer than four parts ends it.
RECURSIVE RecoverLoopAborting(_, _, _)
RecoverLoopAborting(lines, i, data) ==
    IF i > Len(lines) THEN data
    ELSE LET parts == SplitN(lines[i], 4, 1, <<>>)
         IN  IF Len(parts) < 4 THEN data
             ELSE IF parts[2] = OpSET
                  THEN RecoverLoopAborting(lines, i + 1, StoreSet(data, parts[3], parts[4]))
             ELSE IF parts[2] = OpDEL
                  THEN RecoverLoopAborting(lines, i + 1, StoreDelete(data, parts[3]))
             ELSE RecoverLoopAborting(lines, i + 1, data)

\* WAL.Recover: each line with four parts is replayed into the store.
RECURSIVE RecoverLoop(_, _, _)
RecoverLoop(lines, i, data) ==
    IF i > Len(lines) THEN data
    ELSE LET parts == SplitN(lines[i], 4, 1, <<>>)
         IN  IF Len(parts) < 4 THEN RecoverLoop(lines, i + 1, data)
             ELSE IF parts[2] = OpSET
                  THEN RecoverLoop(lines, i + 1, StoreSet(data, parts[3], parts[4]))
             ELSE IF parts[2] = OpDEL
                  THEN RecoverLoop(lines, i + 1, StoreDelete(data, parts[3]))
             ELSE RecoverLoop(lines, i + 1, data)

Recover(file, data) == RecoverLoop(ScanLines(file, 1, <<>>), 1, data)

\* NewWAL: the file opened for appending, behind an empty bufio.Writer.
\* buffered are the writer's pending bytes, err its sticky error.
NewWAL == [closed |-> FALSE, buffered |-> <<>>, err |-> FALSE]

\* bufio.Writer.Flush over the file: (wal, file, err)
WriterFlush(w, file) ==
    IF w.err THEN [wal |-> w, file |-> file, err |-> TRUE]
    ELSE IF w.buffered = <<>> THEN [wal |-> w, file |-> file, err |-> FALSE]
    ELSE IF w.closed THEN [wal |-> [w EXCEPT !.err = TRUE], file |-> file, err |-> TRUE]
    ELSE [wal |-> [w EXCEPT !.buffered = <<>>], file |-> file \o w.buffered, err |-> FALSE]

\* WAL.WriteEntry: (wal, file, err)
WALWriteEntry(w, file, operation, key, value, timestamp) ==
    LET entry == FormatEntry(timestamp, operation, key, value)
    IN  IF w.err THEN [wal |-> w, file |-> file, err |-> TRUE]
        ELSE WriterFlush([w EXCEPT !.buffered = @ \o entry], file)

\* WAL.Close: (wal, file)
WALClose(w, file) ==
    LET r == WriterFlush(w, file)
    IN  [wal |-> [r.wal EXCEPT !.closed = TRUE], file |-> r.file]

\* A slip in the replay: the records replayed are logged again, and the
\* deferred Close flushes them to the file.
NewStoreRelogging(file) ==
    LET closed == WALClose([NewWAL EXCEPT !.buffered = file], file)
    IN  [store |-> [data |-> Recover(file, <<>>), wal |-> closed.wal],
         file |-> closed.file]

\* NewStore: the WAL opened, the store recovered from it, and the deferred
\* wal.Close() run on return.
NewStore(file) ==
    LET closed == WALClose(NewWAL, file)
    IN  [store |-> [data |-> Recover(file, <<>>), wal |-> closed.wal],
         file |-> closed.file]

\* RESP replies: "+OK\r\n"-style simple strings, "-ERR ..." errors,
\* "$<len>\r\n<body>\r\n" bulk strings and the null bulk string "$-1\r\n".
SimpleString(text) == [type |-> "simple", text |-> text, body |-> <<>>]
ErrorReply(text) == [type |-> "error", text |-> text, body |-> <<>>]
BulkString(body) == [type |-> "bulk", text |-> "", body |-> body]
NullBulk == [type |-> "null", text |-> "", body |-> <<>>]
NoReply == [type |-> "none", text |-> "", body |-> <<>>]
\* "-ERR unknown command '<command>'\r\n"
UnknownCommand(command) == [type |-> "error", text |-> "unknown command", body |-> command]

\* strings.ToUpper on ASCII
ToUpper(str) == [i \in 1..Len(str) |-> IF str[i] \in 97..122 THEN str[i] - 32 ELSE str[i]]

\* "GET", "PING", "ECHO"
OpGET == <<71, 69, 84>>
OpPING == <<80, 73, 78, 71>>
OpECHO == <<69, 67, 72, 79>>

\* The outcome of a command: the store and the WAL file after it, the reply,
\* and what WAL.WriteEntry returned when the command called it.
Outcome(st, file, response, walErr) ==
    [store |-> st, file |-> file, response |-> response, walErr |-> walErr]

\* A slip in the SET case: the store is written whatever the WAL answered.
ExecSETUnlogged(st, file, key, value, t) ==
    LET r == WALWriteEntry(st.wal, file, OpSET, key, value, t)
    IN  Outcome([data |-> StoreSet(st.data, key, value), wal |-> r.wal], r.file,
                IF r.err THEN ErrorReply("wal") ELSE SimpleString("OK"),
                IF r.err THEN "failed" ELSE "ok")

\* case "SET", past the argument check
ExecSET(st, file, key, value, t) ==
    LET r == WALWriteEntry(st.wal, file, OpSET, key, value, t)
    IN  IF r.err
        THEN Outcome([st EXCEPT !.wal = r.wal], r.file, ErrorReply("wal"), "failed")
        ELSE Outcome([data |-> StoreSet(st.data, key, value), wal |-> r.wal],
                     r.file, SimpleString("OK"), "ok")

\* case "DEL", past the argument check
ExecDEL(st, file, key, t) ==
    LET r == WALWriteEntry(st.wal, file, OpDEL, key, <<>>, t)
    IN  IF r.err
        THEN Outcome([st EXCEPT !.wal = r.wal], r.file, ErrorReply("wal"), "failed")
        ELSE Outcome([data |-> StoreDelete(st.data, key), wal |-> r.wal],
                     r.file, SimpleString("OK"), "ok")

\* case "GET", past the argument check
ExecGET(st, file, key) ==
    LET r == StoreGet(st.data, key)
    IN  Outcome(st, file, IF r.exists THEN BulkString(r.value) ELSE NullBulk, "none")

executeCommand(st, file, args, t) ==
    IF Len(args) = 0 THEN Outcome(st, file, ErrorReply("empty command"), "none")
    ELSE LET command == ToUpper(args[1])
         IN  IF command = OpPING THEN Outcome(st, file, SimpleString("PONG"), "none")
             ELSE IF command = OpECHO
                  THEN IF Len(args) < 2
                       THEN Outcome(st, file, ErrorReply("wrong number of arguments"), "none")
                       ELSE Outcome(st, file, BulkString(args[2]), "none")
             ELSE IF command = OpSET
                  THEN IF Len(args) < 3
                       THEN Outcome(st, file, ErrorReply("wrong number of arguments"), "none")
                       ELSE ExecSET(st, file, args[2], args[3], t)
             ELSE IF command = OpGET
                  THEN IF Len(args) < 2
                       THEN Outcome(st, file, ErrorReply("wrong number of arguments"), "none")
                       ELSE ExecGET(st, file, args[2])
             ELSE IF command = OpDEL
                  THEN IF Len(args) < 2
                       THEN Outcome(st, file, ErrorReply("wrong number of arguments"), "none")
                       ELSE ExecDEL(st, file, args[2], t)
             ELSE Outcome(st, file, UnknownCommand(command), "none")

\* The server's clock starts here, in seconds, and moves on at most this
\* many times.
SrvEpoch == 9
MaxSrvTicks == 1

\* The keys clients name: "a", "b"; and the commands they send, among them
\* "del a", "get a", "Ping" and the unknown "foo a".
SrvKeys == {<<97>>, <<98>>}

Commands ==
    {<<OpSET, k, v>> : k \in SrvKeys, v \in Values}
        \cup {<<op, k>> : op \in {OpGET, OpDEL}, k \in SrvKeys}
        \cup {<<OpSET, <<97>>>>, <<OpECHO, <<97>>>>, <<<<115, 101, 116>>, <<97>>, <<49>>>>}
        \cup {<<op>> : op \in {OpGET, OpDEL, OpECHO, OpPING, <<115, 101, 116>>}}
        \cup {<<<<100, 101, 108>>, <<97>>>>, <<<<103, 101, 116>>, <<97>>>>, <<<<80, 105, 110, 103>>>>}
        \cup {<<<<102, 111, 111>>, <<97>>>>}
        \cup {<<>>}

\* The lines an earlier run may have left in wal.log: records of SET and DEL,
\* a record cut short, and a record of an unknown operation.
WalLines ==
    {FormatEntry(1, OpSET, <<97>>, <<49>>),
     FormatEntry(3, OpDEL, <<97>>, <<>>), FormatEntry(4, OpSET, <<98>>, <<49>>),
     <<53, Bar>> \o OpSET \o <<Bar, 97, NewLine>>,
     FormatEntry(6, OpPING, <<97>>, <<49>>)}

RECURSIVE Concat(_, _)
Concat(seqs, i) == IF i > Len(seqs) THEN <<>> ELSE seqs[i] \o Concat(seqs, i + 1)

InitSrv ==
    /\ \E lines \in SeqsUpTo(WalLines, MaxWalLines) :
          LET r == NewStore(Concat(lines, 1))
          IN  /\ walDisk = r.file
              /\ srv = [store |-> r.store, args |-> <<>>, response |-> NoReply,
                        walErr |-> "none"]
    /\ now = SrvEpoch
    /\ mt = Idle /\ mtLast = Idle /\ sst = Idle /\ cmp = Idle
    /\ disk = Idle /\ store = Idle /\ flushers = Idle /\ hist = Idle

\* A client's command is executed and answered.  The clock, in seconds, has
\* stayed or moved on since the last command.
SrvExecute(args) ==
    /\ \E t \in {now} \cup {u \in {Tick(now)} : u <= SrvEpoch + MaxSrvTicks} :
          LET r == executeCommand(srv.store, walDisk, args, t)
          IN  /\ now' = t
              /\ srv' = [store |-> r.store, args |-> args, response |-> r.response,
                         walErr |-> r.walErr]
              /\ walDisk' = r.file
    /\ UNCHANGED <<disk, memVars, sstVars, cmpVars, lsmVars>>

\* The process is killed after a command and started again: NewStore runs on
\* the WAL file as it is.
SrvRestart ==
    /\ srv.args # <<>>
    /\ LET r == NewStore(walDisk)
       IN  /\ walDisk' = r.file
           /\ srv' = [store |-> r.store, args |-> <<>>, response |-> NoReply,
                      walErr |-> "none"]
    /\ UNCHANGED <<now, disk, memVars, sstVars, cmpVars, lsmVars>>

NextSrv ==
    \/ \E args \in Commands : SrvExecute(args)
    \/ SrvRestart

SpecSrv == InitSrv /\ [][NextSrv]_vars

\* A SET with valid arguments, and the key and value it names.
IsSet(args) == Len(args) >= 3 /\ ToUpper(args[1]) = OpSET

\* C4: on a started server a SET k v with valid arguments is answered +OK and
\* a GET k after it is answered v.
C4_SetThenGet ==
    IsSet(srv.args) =>
        /\ srv.response = SimpleString("OK")
        /\ ExecGET(srv.store, walDisk, srv.args[2]).response = BulkString(srv.args[3])

\* C5: a SET or DEL whose WAL append failed is answered with an error and
\* leaves the store's contents as they were; and what GET can see is what
\* the records of the WAL say.
C5_WalPrecedesVisibility ==
    /\ [](srv.store.data = Recover(walDisk, <<>>))
    /\ [][srv'.walErr = "failed" =>
            /\ srv'.response.type = "error"
            /\ srv'.store.data = srv.store.data]_vars

\* A SET a 22 was refused for its WAL append while the store held a = 1, and
\* a is still 1.
C5_Witness ==
    /\ srv.args = <<OpSET, <<97>>, <<50, 50>>>>
    /\ srv.walErr = "failed"
    /\ srv.response.type = "error"
    /\ StoreGet(srv.store.data, <<97>>) = [value |-> <<49>>, exists |-> TRUE]

(***************************************************************************)
(* SpecOpen: OpenSSTable on files of any provenance                        *)
(***************************************************************************)
\* A file laid out as an SSTable, with the given version and magic bytes in
\* its footer.
FileWith(E, version, magic) ==
    LET we == WriteEntries(E, 1, <<>>, <<>>)
    IN  we.bytes \o WriteIndex(we.indexEntries, 1)
            \o LE(Len(we.bytes), 8) \o LE(Len(E), 4) \o LE(version, 4) \o magic

\* The entry sequences of the files opened.
OpenEntries ==
    {<<>>,
     <<Entry(<<97>>, <<49>>, 1, FALSE)>>,
     <<Entry(<<98>>, <<50, 50>>, 2, FALSE)>>,
     <<Entry(<<97>>, <<49>>, 1, FALSE), Entry(<<98>>, <<50, 50>>, 2, FALSE)>>,
     <<Entry(<<97>>, <<>>, 3, TRUE), Entry(<<98>>, <<50, 50>>, 2, FALSE)>>}

\* The footer versions and magic bytes met in files: the writer's, and others.
OpenVersions == {0, Version, 2}
OpenMagics == {MagicNumber, <<254, 202, 190, 187>>, <<186, 190, 202, 254>>}

\* The files: laid out as SSTables, and the short tails of one of them.
OpenFiles ==
    {FileWith(E, v, m) : E \in OpenEntries, v \in OpenVersions, m \in OpenMagics}
        \cup {LastBytes(FileWith(<<>>, Version, MagicNumber), n) : n \in 0..FooterSize}

InitOpen ==
    /\ now = 0
    /\ \E file \in OpenFiles : disk = [p \in {SstPath} |-> file]
    /\ sst = [pc |-> "closed", err |-> FALSE, sstable |-> <<>>]
    /\ mt = Idle /\ mtLast = Idle /\ cmp = Idle
    /\ store = Idle /\ flushers = Idle /\ hist = Idle
    /\ srv = Idle /\ walDisk = Idle

\* OpenSSTable(path)
OpenFile ==
    /\ sst.pc = "closed"
    /\ LET r == OpenSSTable(disk, SstPath)
       IN  sst' = [pc |-> "opened", err |-> r.err, sstable |-> r.sstable]
    /\ UNCHANGED <<now, disk, memVars, cmpVars, lsmVars, srvVars>>

\* SSTable.Close on the handle, or giving up after the error.
OpenClose ==
    /\ sst.pc = "opened"
    /\ sst' = [pc |-> "done", err |-> sst.err, sstable |-> <<>>]
    /\ UNCHANGED <<now, disk, memVars, cmpVars, lsmVars, srvVars>>

NextOpen == OpenFile \/ OpenClose

SpecOpen == InitOpen /\ [][NextOpen]_vars

\* The footer fields of a file of at least FooterSize bytes, as bytes.
FooterVersionBytes(file) == SubSeq(file, Len(file) - 7, Len(file) - 4)
FooterMagicBytes(file) == LastBytes(file, 4)

\* C12: OpenSSTable returns an error and no handle for every file shorter
\* than 20 bytes, every file whose footer magic is not 0xBABECAFE and every
\* file whose footer version is not 1.
C12_OpenRejects ==
    sst.pc = "opened" =>
        LET file == disk[SstPath]
        IN  (\/ Len(file) < FooterSize
             \/ FooterMagicBytes(file) # MagicNumber
             \/ FooterVersionBytes(file) # LE(Version, 4))
                => (sst.err /\ sst.sstable = <<>>)

(***************************************************************************)
(* SpecLSM, continued: files across restarts, and writes after a rotation  *)
(***************************************************************************)
\* The SSTable files the store has open.
OpenedPaths == {store.sstables[i].filePath : i \in 1..Len(store.sstables)}

\* C13: SSTable files live at sstable-<id>.db, and every file a background
\* flush has written is found and opened by NewLSMStore on the next start.
C13_FlushedFilesFoundOnRestart ==
    /\ \A p \in DOMAIN disk : p.ext = "db"
    /\ hist.restarted => DOMAIN disk \subseteq OpenedPaths

(***************************************************************************)
(* SpecLoad: NewLSMStore on a data directory of any content                *)
(***************************************************************************)
\* The files of the data directory have ids up to this.
MaxFileId == 3

\* What the directory holds under an id: nothing; sstable-<id>.db with key
\* "a" live or deleted; sstable-<id>.db cut short; or sstable-<id>.sst.
FileKinds == {"absent", "live", "deleted", "short", "sst"}

\* The entries of the file of an id: the value names the id.
FileEntries(id, kind) == <<Entry(<<97>>, IF kind = "deleted" THEN <<>> ELSE <<48 + id>>,
                                 id + 1, kind = "deleted")>>

DirectoryOf(kinds) ==
    [p \in {SSTablePath(id, IF kinds[id] = "sst" THEN "sst" ELSE "db") :
                id \in {i \in 0..MaxFileId : kinds[i] # "absent"}} |->
        IF kinds[p.id] = "short"
        THEN SubSeq(WellFormedFile(FileEntries(p.id, "live")), 1, FooterSize)
        ELSE WellFormedFile(FileEntries(p.id, kinds[p.id]))]

InitLoad ==
    /\ now = 0
    /\ \E kinds \in [0..MaxFileId -> FileKinds] : disk = DirectoryOf(kinds)
    /\ store = Idle
    /\ hist = [pc |-> "down"]
    /\ flushers = Idle
    /\ mt = Idle /\ mtLast = Idle /\ sst = Idle /\ cmp = Idle
    /\ srv = Idle /\ walDisk = Idle

\* NewLSMStore(memtableSize, dataDir): the store, or an error and no store
LoadStore ==
    /\ hist.pc = "down"
    /\ LET r == NewLSMStore(disk, MemTableSize)
       IN  /\ store' = IF r.err THEN Idle ELSE r.store
           /\ hist' = [pc |-> IF r.err THEN "failed" ELSE "up"]
    /\ UNCHANGED <<now, disk, flushers, memVars, sstVars, cmpVars, srvVars>>

\* The process ends.
LoadStop ==
    /\ hist.pc # "down"
    /\ store' = Idle
    /\ hist' = [pc |-> "down"]
    /\ UNCHANGED <<now, disk, flushers, memVars, sstVars, cmpVars, srvVars>>

NextLoad == LoadStore \/ LoadStop

SpecLoad == InitLoad /\ [][NextLoad]_vars

\* The ids of the sstable-<id>.db files of the directory.
DbIds == {p.id : p \in {q \in DOMAIN disk : q.ext = "db"}}

\* C14: after NewLSMStore has loaded the directory, the SSTable list is in
\* descending order of id, and Get finds what the highest-id file holds for
\* a key before what a lower-id file holds.
C14_LoadedNewestFirst ==
    hist.pc = "up" =>
        /\ \A i \in 1..(Len(store.sstables) - 1) :
              extractSSTableId(store.sstables[i].filePath)
                  > extractSSTableId(store.sstables[i + 1].filePath)
        /\ \A id \in DbIds :
              ((\A other \in DbIds : other <= id)
                  /\ ~EntryOf(OpenSSTable(disk, SSTablePath(id, "db")).sstable, <<97>>).Deleted)
                 => LSMStoreGet(disk, store, <<97>>) = Found(<<48 + id>>)

\* C15: after NewLSMStore, nextSSTableID is 1 + the largest id among the
\* SSTable files of the directory, 0 when there is none, gaps or no gaps.
C15_NextIdAboveLargest ==
    hist.pc = "up" =>
        store.nextSSTableID =
            IF DbIds = {} THEN 0
            ELSE 1 + (CHOOSE id \in DbIds : \A other \in DbIds : other <= id)

\* C15's case: a directory loaded whose ids have a gap and do not start at 0.
C15_Witness ==
    /\ hist.pc = "up"
    /\ DbIds = {1, 3}
    /\ Len(store.sstables) = 2
    /\ store.nextSSTableID = 4

(***************************************************************************)
(* SpecRead: concurrent lookups on one SSTable handle.  LSMStore.Get holds *)
(* the store's lock for reading, so lookups run side by side; SSTable.Get  *)
(* seeks and reads on the handle's one file, whose offset they share.      *)
(***************************************************************************)
\* The goroutines that call Get at the same time.
NumReaders == 2
Readers == 1..NumReaders

\* The keys looked up: "a" and "b", which the SSTable holds, and "c".
RdKeys == {<<97>>, <<98>>, <<99>>}

RdFile == WellFormedFile(<<Entry(<<97>>, <<49>>, 1, FALSE), Entry(<<98>>, <<50, 50>>, 2, FALSE)>>)

RdIdle == [pc |-> "idle", key |-> <<>>, n |-> 0, keyBytes |-> <<>>, valueBytes |-> <<>>,
           result |-> [value |-> <<>>, found |-> FALSE, err |-> FALSE]]

InitRead ==
    /\ now = 0
    /\ disk = [p \in {SstPath} |-> RdFile]
    /\ sst = [handle |-> OpenSSTable(disk, SstPath).sstable,
              pos |-> Len(RdFile) - FooterSize,
              readers |-> [t \in Readers |-> RdIdle]]
    /\ mt = Idle /\ mtLast = Idle /\ cmp = Idle
    /\ store = Idle /\ flushers = Idle /\ hist = Idle
    /\ srv = Idle /\ walDisk = Idle

\* The result a lookup returns.
RdResult(value, found, err) == [value |-> value, found |-> found, err |-> err]

\* SSTable.Get(key), the index lookup: a key the index lacks is not-found.
RdCall(t, k) ==
    /\ sst.readers[t].pc = "idle"
    /\ sst' = [sst EXCEPT !.readers[t] =
                  IF k \in DOMAIN sst.handle.index
                  THEN [@ EXCEPT !.pc = "seek", !.key = k]
                  ELSE [@ EXCEPT !.pc = "done", !.key = k,
                                 !.result = RdResult(<<>>, FALSE, FALSE)]]
    /\ UNCHANGED <<now, disk, memVars, cmpVars, lsmVars, srvVars>>

\* ReadEntryAtOffset: file.Seek(offset, io.SeekStart)
RdSeek(t) ==
    /\ sst.readers[t].pc = "seek"
    /\ sst' = [sst EXCEPT !.pos = sst.handle.index[sst.readers[t].key],
                          !.readers[t].pc = "klen"]
    /\ UNCHANGED <<now, disk, memVars, cmpVars, lsmVars, srvVars>>

\* The number of bytes the reader's next read asks for.
RdWants(r) ==
    CASE r.pc \in {"klen", "vlen"} -> 4
      [] r.pc \in {"key", "val"} -> r.n
      [] r.pc = "ts" -> 8
      [] r.pc = "del" -> 1

\* The reader after a read that returned the bytes asked for; after the
\* last one SSTable.Get compares the key and looks at the deleted flag.
RdAfter(r, bytes) ==
    CASE r.pc = "klen" -> [r EXCEPT !.pc = "key", !.n = FromLE(bytes)]
      [] r.pc = "key"  -> [r EXCEPT !.pc = "vlen", !.keyBytes = bytes]
      [] r.pc = "vlen" -> [r EXCEPT !.pc = "val", !.n = FromLE(bytes)]
      [] r.pc = "val"  -> [r EXCEPT !.pc = "ts", !.valueBytes = bytes]
      [] r.pc = "ts"   -> [r EXCEPT !.pc = "del"]
      [] r.pc = "del"  ->
            [r EXCEPT !.pc = "done",
                      !.result = IF r.keyBytes # r.key THEN RdResult(<<>>, FALSE, TRUE)
                                 ELSE IF bytes[1] # 0 THEN RdResult(<<>>, FALSE, FALSE)
                                 ELSE RdResult(r.valueBytes, TRUE, FALSE)]

\* ReadEntryAtOffset: the next binary.Read or io.ReadFull, at the file's
\* offset, which moves past what was read; a read that meets the end of the
\* file is an error, which SSTable.Get returns.
RdRead(t) ==
    /\ sst.readers[t].pc \in {"klen", "key", "vlen", "val", "ts", "del"}
    /\ LET r == sst.readers[t]
           n == RdWants(r)
           got == IF n >= Huge THEN [bytes |-> <<>>, err |-> TRUE] ELSE ReadN(RdFile, sst.pos, n)
       IN  sst' = IF got.err
                  THEN [sst EXCEPT !.pos = Len(RdFile),
                                   !.readers[t] = [r EXCEPT !.pc = "done",
                                                            !.result = RdResult(<<>>, FALSE, TRUE)]]
                  ELSE [sst EXCEPT !.pos = sst.pos + n,
                                   !.readers[t] = RdAfter(r, got.bytes)]
    /\ UNCHANGED <<now, disk, memVars, cmpVars, lsmVars, srvVars>>

\* The caller takes the result; the goroutine may call again.
RdReturn(t) ==
    /\ sst.readers[t].pc = "done"
    /\ sst' = [sst EXCEPT !.readers[t] = RdIdle]
    /\ UNCHANGED <<now, disk, memVars, cmpVars, lsmVars, srvVars>>

NextRead ==
    \/ \E t \in Readers, k \in RdKeys : RdCall(t, k)
    \/ \E t \in Readers : RdSeek(t)
    \/ \E t \in Readers : RdRead(t)
    \/ \E t \in Readers : RdReturn(t)

SpecRead == InitRead /\ [][NextRead]_vars

\* C16: a lookup that runs beside other lookups returns what it returns
\* when run alone: the value stored for its own key, no index-mismatch
\* error, no not-found for a key the SSTable holds.
C16_ConcurrentGetAsAlone ==
    \A t \in Readers :
        sst.readers[t].pc = "done" =>
            sst.readers[t].result = SSTableGet(disk, sst.handle, sst.readers[t].key)

(***************************************************************************)
(* SpecWal: NewStore on a WAL file made of known records                   *)
(***************************************************************************)
\* The WAL file holds at most this many records.
MaxWalRecords == 3

\* The records: SET and DEL records (one value holds a "|"), a record with
\* three parts, and a record of another operation.
WalRecord(kind, key, value) == [kind |-> kind, key |-> key, value |-> value]

WalRecords ==
    {WalRecord("SET", <<97>>, <<49>>), WalRecord("SET", <<97>>, <<50, Bar, 50>>),
     WalRecord("SET", <<98>>, <<49>>), WalRecord("DEL", <<97>>, <<>>),
     WalRecord("short", <<97>>, <<>>), WalRecord("other", <<97>>, <<49>>)}

\* The line of a record, written at a time.
RenderRecord(rec, timestamp) ==
    CASE rec.kind = "SET" -> FormatEntry(timestamp, OpSET, rec.key, rec.value)
      [] rec.kind = "DEL" -> FormatEntry(timestamp, OpDEL, rec.key, <<>>)
      [] rec.kind = "short" ->
            Decimal(timestamp) \o <<Bar>> \o OpSET \o <<Bar>> \o rec.key \o <<NewLine>>
      [] rec.kind = "other" -> FormatEntry(timestamp, OpPING, rec.key, rec.value)

InitWal ==
    /\ now = 0
    /\ \E recs \in SeqsUpTo(WalRecords, MaxWalRecords) :
          /\ walDisk = Concat([i \in 1..Len(recs) |-> RenderRecord(recs[i], SrvEpoch + i)], 1)
          /\ srv = [pc |-> "down", recs |-> recs, store |-> <<>>]
    /\ mt = Idle /\ mtLast = Idle /\ sst = Idle /\ cmp = Idle
    /\ disk = Idle /\ store = Idle /\ flushers = Idle /\ hist = Idle

\* NewStore(): the WAL is opened and replayed into an empty store.
WalStart ==
    /\ srv.pc = "down"
    /\ LET r == NewStore(walDisk)
       IN  /\ srv' = [srv EXCEPT !.pc = "up", !.store = <<r.store>>]
           /\ walDisk' = r.file
    /\ UNCHANGED <<now, disk, memVars, sstVars, cmpVars, lsmVars>>

\* The process ends.
WalStop ==
    /\ srv.pc = "up"
    /\ srv' = [srv EXCEPT !.pc = "down", !.store = <<>>]
    /\ UNCHANGED <<now, walDisk, disk, memVars, sstVars, cmpVars, lsmVars>>

NextWal == WalStart \/ WalStop

SpecWal == InitWal /\ [][NextWal]_vars

\* The records applied one after another to a store's data.
RECURSIVE ApplyRecords(_, _, _)
ApplyRecords(recs, i, data) ==
    IF i > Len(recs) THEN data
    ELSE ApplyRecords(recs, i + 1,
                      CASE recs[i].kind = "SET" -> StoreSet(data, recs[i].key, recs[i].value)
                        [] recs[i].kind = "DEL" -> StoreDelete(data, recs[i].key)
                        [] OTHER -> data)

WriteStep == ~hist'.restarted /\ (now' # now \/ hist'.call # hist.call)

\* A flush of this run has failed: the store has rotated, its flushers have
\* ended, and the immutable slot still holds the MemTable.
FlushFailed == hist.rotations >= 1 /\ flushers = <<>> /\ store.immutableMemTable # <<>>

\* C18: after a background flush has failed the immutable MemTable stays
\* readable and writes go on: Set and Delete keep returning no error.
C18_WritesContinueAfterFailedFlush ==
    /\ [](FlushFailed =>
            \A k \in LsmKeys :
                (~MemTableGet(store.memTable, k).found
                    /\ MemTableGet(store.immutableMemTable[1], k).found)
                  => LSMStoreGet(disk, store, k) = MemTableGet(store.immutableMemTable[1], k))
    /\ [][(FlushFailed /\ WriteStep) => ~hist'.call.err]_vars

\* C19: in every reachable state the store's active MemTable is mutable, so
\* that no Set or Delete comes back with the sealed-MemTable error.
C19_ActiveMemTableMutable == ~store.memTable.immutable

\* C20: a rotation asked for while the previous flush is in flight waits for
\* the flusher and then completes: the Set or Delete that asked for it
\* returns no error.
C20_RotationWaitsForFlusher ==
    [][(flushers # <<>> /\ ~store.memTable.immutable /\ WriteStep) => ~hist'.call.err]_vars

(***************************************************************************)
(* SpecMem, continued: sealing, size accounting, updates in place          *)
(***************************************************************************)
\* C27: once MakeImmutable has been called on a MemTable, every Set and
\* Delete returns the immutable error and leaves entries, values,
\* timestamps, deleted flags and sizeBytes as they were (so Get answers as
\* before).
C27_SealedMemTableUnchanged ==
    [][mt.immutable =>
          /\ mt' = mt
          /\ mtLast'.op \in {"Set", "Delete"} => mtLast'.err]_vars

\* C27's case: a Set refused by a sealed MemTable that holds entries.
C27_Witness ==
    /\ mt.immutable
    /\ mtLast.op = "Set" /\ mtLast.err
    /\ Len(mt.entries) >= 2

\* The sum over the entries of key length + stored value length + 24.
RECURSIVE EntrySizes(_, _)
EntrySizes(entries, i) ==
    IF i > Len(entries) THEN 0
    ELSE Len(entries[i].Key) + Len(entries[i].Value) + 24 + EntrySizes(entries, i + 1)

\* C28: after any sequence of Set and Delete calls sizeBytes is the sum over
\* the stored entries of key length + stored value length + 24, tombstones
\* included, and ShouldFlush is true exactly when that sum is >= maxSize.
C28_SizeAccounting ==
    /\ mt.sizeBytes = EntrySizes(mt.entries, 1)
    /\ ShouldFlush(mt) <=> (EntrySizes(mt.entries, 1) >= mt.maxSize)

\* C28's case: a MemTable at its size limit that holds a tombstone still
\* carrying a value, after an update in place.
C28_Witness ==
    /\ ShouldFlush(mt)
    /\ \E i \in 1..Len(mt.entries) : mt.entries[i].Deleted /\ mt.entries[i].Value # <<>>
    /\ Len(mt.entries) < now

\* The entry a MemTable holds for a key: <<>> or <<entry>>.
HeldBy(m, k) ==
    LET at == {i \in 1..Len(m.entries) : m.entries[i].Key = k}
    IN  IF at = {} THEN <<>> ELSE <<m.entries[CHOOSE i \in at : TRUE]>>

\* The entries of a MemTable for the keys other than k, in order.
Others(m, k) == SelectSeq(m.entries, LAMBDA e : e.Key # k)

\* C29: Delete on a present key marks its entry deleted and leaves its value
\* bytes and the entry count as they were; Delete on an absent key inserts
\* one tombstone with empty value at the key's sorted position; Set on a
\* present key updates the entry in place (value replaced, deleted flag
\* cleared) and leaves the entry count as it was.
C29_DeleteAndSetInPlace ==
    [][(mtLast'.op \in {"Set", "Delete"} /\ ~mtLast'.err /\ mt' # mt) =>
          LET k == mtLast'.key
              before == HeldBy(mt, k)
              after == HeldBy(mt', k)
          IN  /\ Others(mt', k) = Others(mt, k)
              /\ after # <<>>
              /\ StrictlySorted(mt'.entries)
              /\ (mtLast'.op = "Delete" /\ before # <<>>) =>
                    /\ Len(mt'.entries) = Len(mt.entries)
                    /\ after[1].Deleted
                    /\ after[1].Value = before[1].Value
              /\ (mtLast'.op = "Delete" /\ before = <<>>) =>
                    /\ Len(mt'.entries) = Len(mt.entries) + 1
                    /\ after[1].Deleted
                    /\ after[1].Value = <<>>
              /\ (mtLast'.op = "Set" /\ before # <<>>) =>
                    /\ Len(mt'.entries) = Len(mt.entries)
                    /\ ~after[1].Deleted
                    /\ after[1].Value = mtLast'.value]_vars

\* C29's case: a key deleted while present, its value kept under the
\* tombstone, next to a tombstone inserted for an absent key.
C29_Witness ==
    /\ mtLast.op = "Delete" /\ ~mtLast.err
    /\ \E i, j \in 1..Len(mt.entries) :
          /\ mt.entries[i].Deleted /\ mt.entries[i].Value # <<>>
          /\ mt.entries[j].Deleted /\ mt.entries[j].Value = <<>>
          /\ mt.entries[j].Timestamp < mt.entries[i].Timestamp
(***************************************************************************)
(* SpecSrv, continued: the replies of executeCommand                       *)
(***************************************************************************)
\* The command name of the last command, as executeCommand compares it.
LastCommand == ToUpper(srv.args[1])

\* C22: whatever the case of the command name, PING is answered +PONG, ECHO s
\* the bulk string s, GET k the bulk string of the stored value or the null
\* bulk string when k is absent, DEL k +OK whether or not k is stored, and
\* a command outside PING, ECHO, SET, GET, DEL the unknown-command error.
C22_CommandReplies ==
    (srv.args # <<>>) =>
        /\ LastCommand = OpPING => srv.response = SimpleString("PONG")
        /\ (LastCommand = OpECHO /\ Len(srv.args) >= 2) =>
              srv.response = BulkString(srv.args[2])
        /\ (LastCommand = OpGET /\ Len(srv.args) >= 2) =>
              srv.response =
                  (IF srv.args[2] \in DOMAIN srv.store.data
                   THEN BulkString(srv.store.data[srv.args[2]])
                   ELSE NullBulk)
        /\ (LastCommand = OpDEL /\ Len(srv.args) >= 2) =>
              srv.response = SimpleString("OK")
        /\ LastCommand \notin {OpPING, OpECHO, OpSET, OpGET, OpDEL} =>
              /\ srv.response.type = "error"
              /\ srv.response.text = "unknown command"

(***************************************************************************)
(* SpecCompact, continued: the file CompactSSTables leaves                 *)
(***************************************************************************)
\* The first n entries of a file's entry section, read one after the other
\* from the given offset; the reading stops at an entry that cannot be read.
RECURSIVE EntriesFrom(_, _, _)
EntriesFrom(file, offset, n) ==
    IF n = 0 THEN <<>>
    ELSE LET r == ReadEntryAtOffset(file, offset)
         IN  IF r.err THEN <<>>
             ELSE <<r.entry>> \o EntriesFrom(file, offset + Len(WriteEntry(r.entry)), n - 1)

\* C30: the entries of the file CompactSSTables has written are strictly
\* ascending by key, each key once, whatever order the inputs' indexes were
\* enumerated in.
C30_WrittenFileSorted ==
    (cmp.pc = "done" /\ CmpOutputPath \in DOMAIN disk) =>
        StrictlySorted(EntriesFrom(disk[CmpOutputPath], 0, Len(cmp.merged)))

\* C24: a call of CompactSSTables that ends with the error of writing its
\* output leaves every file as it was and no file that was not there.
C24_FailedWriteLeavesNothing ==
    [][(cmp.pc = "merged" /\ cmp'.pc = "done" /\ cmp'.err) => disk' = disk]_vars

(***************************************************************************)
(* SpecClose: LSMStore.Close among the store's calls and its flushers      *)
(***************************************************************************)
\* The store as in SpecLSM; the history also records that Close has
\* returned and the SSTables whose files it closed.
InitClose ==
    /\ \E n \in 0..MaxLoaded : \E cs \in [1..n -> LoadedContents] :
          /\ disk = LoadedFiles(n, cs)
          /\ now = n * Cardinality(CmpKeys)
          /\ store = NewLSMStore(disk, MemTableSize).store
          /\ hist = [last |-> [k \in LsmKeys |-> [op |-> "none", value |-> <<>>]],
                     call |-> [op |-> "none", key |-> <<>>, value |-> <<>>, err |-> FALSE],
                     rotations |-> 0, t0 |-> now, restarted |-> FALSE,
                     closed |-> FALSE, closedFiles |-> {}]
    /\ flushers = <<>>
    /\ mt = Idle /\ mtLast = Idle /\ sst = Idle /\ cmp = Idle
    /\ srv = Idle /\ walDisk = Idle

\* store.Close(), under the store's lock: sst.Close() on every SSTable of
\* the list.  The list, the MemTables and the goroutines are left alone.
LsmClose ==
    /\ ~hist.closed
    /\ hist' = [hist EXCEPT !.closed = TRUE,
                            !.closedFiles = {store.sstables[i].filePath :
                                                 i \in 1..Len(store.sstables)}]
    /\ UNCHANGED <<now, disk, store, flushers, memVars, sstVars, cmpVars, srvVars>>

\* The callers stop calling once Close has returned; the goroutines go on.
NextClose ==
    \/ ~hist.closed /\ \E k \in LsmKeys, v \in Values : LsmSet(k, v)
    \/ ~hist.closed /\ \E k \in LsmKeys : LsmDelete(k)
    \/ \E i \in DOMAIN flushers : FlushBegin(i)
    \/ \E i \in DOMAIN flushers : FlushFinish(i)
    \/ LsmClose

SpecClose == InitClose /\ [][NextClose]_vars

\* C21: once Close has returned no flusher goroutine is running, and every
\* SSTable of the store has had its file closed.
C21_CloseWaitsForFlushers ==
    hist.closed =>
        /\ flushers = <<>>
        /\ \A i \in 1..Len(store.sstables) : store.sstables[i].filePath \in hist.closedFiles

(***************************************************************************)
(* SpecAuto: the LSMStore started on a data directory full of SSTables     *)
(***************************************************************************)
\* The number of SSTables the documentation gives as the compaction threshold.
CompactionThreshold == 5

\* The store as in SpecLSM, started on CompactionThreshold files of earlier
\* runs that all hold key "a", live in all of them or deleted in all.
InitAuto ==
    /\ \E c \in LoadedContents :
          /\ disk = LoadedFiles(CompactionThreshold, [i \in 1..CompactionThreshold |-> c])
          /\ now = CompactionThreshold * Cardinality(CmpKeys)
          /\ store = NewLSMStore(disk, MemTableSize).store
          /\ hist = [last |-> [k \in LsmKeys |-> [op |-> "none", value |-> <<>>]],
                     call |-> [op |-> "none", key |-> <<>>, value |-> <<>>, err |-> FALSE],
                     rotations |-> 0, t0 |-> now, restarted |-> FALSE]
    /\ flushers = <<>>
    /\ mt = Idle /\ mtLast = Idle /\ sst = Idle /\ cmp = Idle
    /\ srv = Idle /\ walDisk = Idle

SpecAuto == InitAuto /\ [][NextLSM]_vars

NumWriters == 2
MaxAppends == 2

\* The bufio.Writer of the WAL is shared and WriteEntry takes no lock, so
\* the goroutines' reads and writes of its fields b.buf and b.n interleave.
\* buf is the part of b.buf written so far (the rest of the array is zero).

\* copy(b.buf[at:], s)
BufCopy(buf, at, s) ==
    [i \in 1..(IF Len(buf) > at + Len(s) THEN Len(buf) ELSE at + Len(s)) |->
        IF i > at /\ i <= at + Len(s) THEN s[i - at]
        ELSE IF i <= Len(buf) THEN buf[i] ELSE 0]

\* b.buf[0:n]
BufSlice(buf, n) == [i \in 1..n |-> IF i <= Len(buf) THEN buf[i] ELSE 0]

\* The entries the goroutines log: SET a 1, DEL a, SET b 1.
AppendCalls == {<<OpSET, <<97>>, <<49>>>>, <<OpDEL, <<97>>, <<>>>>, <<OpSET, <<98>>, <<49>>>>}

InitAppend ==
    /\ now = SrvEpoch
    /\ walDisk = <<>>
    /\ srv = [writer |-> [buf |-> <<>>, n |-> 0],
              procs |-> [p \in 1..NumWriters |-> [pc |-> "idle", entry |-> <<>>]],
              returned |-> <<>>]
    /\ mt = Idle /\ mtLast = Idle /\ sst = Idle /\ cmp = Idle
    /\ disk = Idle /\ store = Idle /\ flushers = Idle /\ hist = Idle

\* The calls of WriteEntry made so far, returned or not.
AppendsMade ==
    Len(srv.returned) + Cardinality({p \in 1..NumWriters : srv.procs[p].pc # "idle"})

\* WriteEntry is entered: the entry is formatted with the time in seconds.
WrCall(p, c) ==
    /\ srv.procs[p].pc = "idle"
    /\ AppendsMade < MaxAppends
    /\ srv' = [srv EXCEPT !.procs[p] = [pc |-> "copy",
                                         entry |-> FormatEntry(now, c[1], c[2], c[3])]]
    /\ UNCHANGED <<now, walDisk, disk, memVars, sstVars, cmpVars, lsmVars>>

\* WriteString: n := copy(b.buf[b.n:], s)
WrCopy(p) ==
    /\ srv.procs[p].pc = "copy"
    /\ srv' = [srv EXCEPT !.writer.buf = BufCopy(@, srv.writer.n, srv.procs[p].entry),
                          !.procs[p].pc = "add"]
    /\ UNCHANGED <<now, walDisk, disk, memVars, sstVars, cmpVars, lsmVars>>

\* WriteString: b.n += n
WrAdd(p) ==
    /\ srv.procs[p].pc = "add"
    /\ srv' = [srv EXCEPT !.writer.n = @ + Len(srv.procs[p].entry),
                          !.procs[p].pc = "flush"]
    /\ UNCHANGED <<now, walDisk, disk, memVars, sstVars, cmpVars, lsmVars>>

\* Flush: with b.n = 0 it returns nil; otherwise b.wr.Write(b.buf[0:b.n])
\* appends to the file.
WrFlushWrite(p) ==
    /\ srv.procs[p].pc = "flush"
    /\ IF srv.writer.n = 0
       THEN /\ srv' = [srv EXCEPT !.procs[p] = [pc |-> "idle", entry |-> <<>>],
                                  !.returned = Append(@, srv.procs[p].entry)]
            /\ walDisk' = walDisk
       ELSE /\ srv' = [srv EXCEPT !.procs[p].pc = "reset"]
            /\ walDisk' = walDisk \o BufSlice(srv.writer.buf, srv.writer.n)
    /\ UNCHANGED <<now, disk, memVars, sstVars, cmpVars, lsmVars>>

\* Flush: b.n = 0, and WriteEntry returns nil.
WrFlushReset(p) ==
    /\ srv.procs[p].pc = "reset"
    /\ srv' = [srv EXCEPT !.writer.n = 0,
                          !.procs[p] = [pc |-> "idle", entry |-> <<>>],
                          !.returned = Append(@, srv.procs[p].entry)]
    /\ UNCHANGED <<now, walDisk, disk, memVars, sstVars, cmpVars, lsmVars>>

NextAppend ==
    \/ \E p \in 1..NumWriters, c \in AppendCalls : WrCall(p, c)
    \/ \E p \in 1..NumWriters : WrCopy(p)
    \/ \E p \in 1..NumWriters : WrAdd(p)
    \/ \E p \in 1..NumWriters : WrFlushWrite(p)
    \/ \E p \in 1..NumWriters : WrFlushReset(p)

SpecAppend == InitAppend /\ [][NextAppend]_vars

\* C25: when no call of WriteEntry is in progress the WAL file is made of
\* the entries of the calls that returned without error, each whole and
\* once, in some order.
C25_OneWholeRecordPerAppend ==
    (\A p \in 1..NumWriters : srv.procs[p].pc = "idle") =>
        \E q \in Orders(1..Len(srv.returned)) :
            walDisk = Concat([i \in 1..Len(srv.returned) |-> srv.returned[q[i]]], 1)

(***************************************************************************)
(* SpecLSM, continued: the immutable slot while a flush is under way       *)
(***************************************************************************)
\* The entries of the immutable-MemTable slot.
SlotEntries(st) ==
    IF st.immutableMemTable = <<>> THEN {}
    ELSE {st.immutableMemTable[1].entries[j] : j \in 1..Len(st.immutableMemTable[1].entries)}

\* An entry is within reach of Get below the active MemTable: the slot holds
\* it or an SSTable of the list holds its key.
ReachableBelow(st, e) ==
    \/ e \in SlotEntries(st)
    \/ \E i \in 1..Len(st.sstables) : e.Key \in DOMAIN st.sstables[i].index

EncodedSize(e) == 4 + Len(e.Key) + 4 + Len(e.Value) + 8 + 1

\* The encoded sizes of the entries before the i-th.
RECURSIVE SizeBefore(_, _)
SizeBefore(E, i) == IF i <= 1 THEN 0 ELSE SizeBefore(E, i - 1) + EncodedSize(E[i - 1])

\* The sizes of the index records before the i-th: length field, key, offset.
RECURSIVE IndexSizeBefore(_, _)
IndexSizeBefore(E, i) ==
    IF i <= 1 THEN 0 ELSE IndexSizeBefore(E, i - 1) + 4 + Len(E[i - 1].Key) + 8

\* C31: in the file CreateSSTable wrote for the entries E, the index has one
\* record per entry in entry order, the i-th holding the i-th key and as its
\* offset the sum of the encoded sizes of the entries before it; the index
\* starts where the entries end; and the footer fields written after the
\* index hold that start offset and the number of entries.
C31_IndexAndFooterArithmetic ==
    sst.pc # "start" =>
        LET E == sst.entries
            f == disk[SstPath]
            total == SizeBefore(E, Len(E) + 1)
            footerAt == total + IndexSizeBefore(E, Len(E) + 1)
        IN  /\ Len(sst.indexEntries) = Len(E)
            /\ \A i \in 1..Len(E) :
                  LET at == total + IndexSizeBefore(E, i)
                  IN  /\ sst.indexEntries[i] = [Key |-> E[i].Key, Offset |-> SizeBefore(E, i)]
                      /\ FromLE(ReadN(f, at, 4).bytes) = Len(E[i].Key)
                      /\ ReadN(f, at + 4, Len(E[i].Key)).bytes = E[i].Key
                      /\ ~ReadN(f, at + 4 + Len(E[i].Key), 8).err
                      /\ FromLE(ReadN(f, at + 4 + Len(E[i].Key), 8).bytes) = SizeBefore(E, i)
                      /\ ReadEntryAtOffset(f, SizeBefore(E, i)) = [err |-> FALSE, entry |-> E[i]]
            /\ ~ReadN(f, footerAt, 8).err
            /\ FromLE(ReadN(f, footerAt, 8).bytes) = total
            /\ ~ReadN(f, footerAt + 8, 4).err
            /\ FromLE(ReadN(f, footerAt + 8, 4).bytes) = Len(E)

\* A file of two entries with values of different lengths has been written;
\* the second entry's offset is past the first entry.
C31_Witness ==
    /\ sst.pc = "created"
    /\ Len(sst.entries) = 2
    /\ Len(sst.entries[1].Value) # Len(sst.entries[2].Value)
    /\ sst.indexEntries[2].Offset = EncodedSize(sst.entries[1])
    /\ Len(disk[SstPath]) > SizeBefore(sst.entries, 3)

(***************************************************************************)
(* SpecCompact, continued: an empty merge                                  *)
(***************************************************************************)
\* C32: no SSTable file is created for an empty entry sequence: when
\* CompactSSTables has left a file at its output path, the entries it merged
\* and wrote are not empty.
C32_NoEmptySSTable ==
    (cmp.pc = "done" /\ CmpOutputPath \in DOMAIN disk) => Len(cmp.merged) > 0

(***************************************************************************)
(* SpecLSM, continued: the immutable slot and the active MemTable          *)
(***************************************************************************)
\* C33: in every state of the store, from NewLSMStore on, an occupied
\* immutable slot holds a sealed MemTable and a flusher goroutine is running.
C33_SlotOnlyDuringFlush ==
    store.immutableMemTable # <<>> =>
        /\ store.immutableMemTable[1].immutable
        /\ flushers # <<>>

(***************************************************************************)
(* SpecRoundTrip: one WriteEntry on an open WAL, then Recover              *)
(***************************************************************************)
\* Keys and values without "|" and without "\n": "a", "b", "a\r", "" and
\* "", "1", "22", "1\r", "\r".
RtKeys == {<<97>>, <<98>>, <<97, Return>>, <<>>}
RtValues == {<<>>, <<49>>, <<50, 50>>, <<49, Return>>, <<Return>>}

\* What the WAL file holds before the call: nothing, or SET a 0.
RtPrior == {<<>>, FormatEntry(1, OpSET, <<97>>, <<48>>)}

InitRoundTrip ==
    /\ \E op \in {OpSET, OpDEL}, key \in RtKeys, value \in RtValues, prior \in RtPrior :
          /\ walDisk = prior
          /\ srv = [pc |-> "start", op |-> op, key |-> key,
                    value |-> IF op = OpDEL THEN <<>> ELSE value,
                    before |-> Recover(prior, <<>>), data |-> <<>>, err |-> FALSE]
    /\ now \in {SrvEpoch, SrvEpoch + 1}
    /\ mt = Idle /\ mtLast = Idle /\ sst = Idle /\ cmp = Idle
    /\ disk = Idle /\ store = Idle /\ flushers = Idle /\ hist = Idle

\* NewWAL, then WriteEntry(op, key, value)
RtWriteEntry ==
    /\ srv.pc = "start"
    /\ LET r == WALWriteEntry(NewWAL, walDisk, srv.op, srv.key, srv.value, now)
       IN  /\ walDisk' = r.file
           /\ srv' = [srv EXCEPT !.pc = "written", !.err = r.err]
    /\ UNCHANGED <<now, disk, memVars, sstVars, cmpVars, lsmVars>>

\* Recover into an empty store
RtRecover ==
    /\ srv.pc = "written"
    /\ srv' = [srv EXCEPT !.pc = "replayed", !.data = Recover(walDisk, <<>>)]
    /\ UNCHANGED <<now, walDisk, disk, memVars, sstVars, cmpVars, lsmVars>>

NextRoundTrip == RtWriteEntry \/ RtRecover

SpecRoundTrip == InitRoundTrip /\ [][NextRoundTrip]_vars

\* C34: for SET and DEL and keys and values without "|" and newline,
\* replaying the file after WriteEntry(op, key, value) gives the store of
\* the earlier records with exactly that operation applied to exactly that
\* key and value.
C34_RecordRoundTrip ==
    srv.pc = "replayed" =>
        /\ ~srv.err
        /\ srv.data = IF srv.op = OpSET THEN StoreSet(srv.before, srv.key, srv.value)
                      ELSE StoreDelete(srv.before, srv.key)

\* C35: a call of Set or Delete that returns an error has not applied its
\* write: Get of its key gives after the call what it gave before.
C35_FailedWriteNotApplied ==
    [][(WriteStep /\ hist'.call.err) =>
          LSMStoreGet(disk', store', hist'.call.key) = LSMStoreGet(disk, store, hist'.call.key)]_vars

\* C37: a call of Set or Delete that returns no error leaves the active
\* MemTable mutable and below the configured size: a write that fills the
\* MemTable has rotated it before the call returns.
C37_ActiveMemTableBelowSize ==
    [][(WriteStep /\ ~hist'.call.err) =>
          /\ ~store'.memTable.immutable
          /\ store'.memTable.sizeBytes < store'.memtableSize]_vars

\* A call has returned no error after filling the MemTable: the filled
\* MemTable is in the slot, sealed, and the active one is new and empty.
C37_Witness ==
    /\ hist.call.op = "Set" /\ ~hist.call.err /\ ~hist.restarted
    /\ hist.rotations = 1
    /\ store.memTable = NewMemTable(store.memtableSize)
    /\ store.immutableMemTable # <<>>
    /\ store.immutableMemTable[1].immutable
    /\ store.immutableMemTable[1].sizeBytes >= store.memtableSize
    /\ MemTableGet(store.immutableMemTable[1], hist.call.key).value = hist.call.value

\* C38: a flush never writes to the path of an SSTable file that exists:
\* the path a flusher has taken an id for is the path of no file on disk.
C38_FlushPathIsNew ==
    \A i \in DOMAIN flushers :
        flushers[i].pc = "io" => SSTablePath(flushers[i].sstableID, "sst") \notin DOMAIN disk

\* A step in which a flusher that had taken its MemTable ends.
FlusherEnds ==
    /\ hist' = hist
    /\ \E i \in DOMAIN flushers : flushers[i].pc = "io" /\ flushers' = RemoveAt(flushers, i)

\* C39: with no I/O error, the flusher of a rotated MemTable ends with the
\* MemTable written to an SSTable that is in the list, and the slot cleared.
C39_FlushCompletes ==
    [][FlusherEnds =>
          /\ store'.immutableMemTable = <<>>
          /\ Len(store'.sstables) = Len(store.sstables) + 1]_vars

(***************************************************************************)
(* SpecSrv, continued: restarts                                            *)
(***************************************************************************)
\* C40: a restart of the server leaves the WAL file as it was and the store
\* with the contents it had before the restart, however many restarts
\* there have been.
C40_RecoveryIdempotent ==
    [][(srv.args # <<>> /\ srv'.args = <<>>) =>
          /\ walDisk' = walDisk
          /\ srv'.store.data = srv.store.data]_vars

\* The server has been restarted after the clock moved on, on a WAL whose
\* records leave a key set, and holds that key.
C40_Witness ==
    /\ srv.args = <<>>
    /\ now > SrvEpoch
    /\ walDisk # <<>>
    /\ StoreGet(srv.store.data, <<98>>).exists

(***************************************************************************)
(* SpecOrder: the SET and DEL cases of executeCommand run by several       *)
(* connection goroutines on a Store whose WAL is open                      *)
(***************************************************************************)
\* The commands the connections send: SET a 1, SET a 22, DEL a, SET b 1.
OrderCommands ==
    {<<OpSET, <<97>>, <<49>>>>, <<OpSET, <<97>>, <<50, 50>>>>, <<OpDEL, <<97>>>>,
     <<OpSET, <<98>>, <<49>>>>}

InitOrder ==
    /\ now = SrvEpoch
    /\ walDisk = <<>>
    /\ srv = [store |-> [data |-> <<>>, wal |-> NewWAL],
              procs |-> [p \in 1..NumWriters |-> [pc |-> "idle", args |-> <<>>]]]
    /\ mt = Idle /\ mtLast = Idle /\ sst = Idle /\ cmp = Idle
    /\ disk = Idle /\ store = Idle /\ flushers = Idle /\ hist = Idle

\* store.wal.WriteEntry(op, key, value) of the SET or DEL case; no lock is
\* held.
OrdLog(p, args) ==
    /\ srv.procs[p].pc = "idle"
    /\ LET r == WALWriteEntry(srv.store.wal, walDisk, args[1], args[2],
                              IF args[1] = OpSET THEN args[3] ELSE <<>>, now)
       IN  /\ walDisk' = r.file
           /\ srv' = [srv EXCEPT !.store.wal = r.wal,
                                 !.procs[p] = [pc |-> IF r.err THEN "done" ELSE "logged",
                                               args |-> args]]
    /\ UNCHANGED <<now, disk, memVars, sstVars, cmpVars, lsmVars>>

\* store.Set(key, value) or store.Delete(key), under Store.mu, and the reply
OrdApply(p) ==
    /\ srv.procs[p].pc = "logged"
    /\ LET args == srv.procs[p].args
       IN  srv' = [srv EXCEPT !.store.data = IF args[1] = OpSET
                                             THEN StoreSet(@, args[2], args[3])
                                             ELSE StoreDelete(@, args[2]),
                              !.procs[p].pc = "done"]
    /\ UNCHANGED <<now, walDisk, disk, memVars, sstVars, cmpVars, lsmVars>>

\* The connection sends its next command.
OrdNext(p) ==
    /\ srv.procs[p].pc = "done"
    /\ Len(ScanLines(walDisk, 1, <<>>)) < MaxAppends
    /\ srv' = [srv EXCEPT !.procs[p] = [pc |-> "idle", args |-> <<>>]]
    /\ UNCHANGED <<now, walDisk, disk, memVars, sstVars, cmpVars, lsmVars>>

NextOrder ==
    \/ \E p \in 1..NumWriters, args \in OrderCommands : OrdLog(p, args)
    \/ \E p \in 1..NumWriters : OrdApply(p)
    \/ \E p \in 1..NumWriters : OrdNext(p)

SpecOrder == InitOrder /\ [][NextOrder]_vars

=============================================================================
